---- MODULE Spec2Model ----
(***************************************************************************)
(* Investor vesting escrow (programs/vesting): the schedule aggregate, the *)
(* recipients list, the vault balance and the eleven instructions, with    *)
(* the UTC calendar-month arithmetic of utils/time.rs.                     *)
(*                                                                         *)
(* Amounts and timestamps are modelled as unbounded integers; every value  *)
(* the model reaches stays far below 2^31, so the u64/i64/i32 widths of    *)
(* the program are never approached by the modelled inputs.  A checked     *)
(* subtraction that would go below zero is modelled as the MathOverflow    *)
(* error the program returns.                                              *)
(***************************************************************************)
EXTENDS Integers, Sequences, FiniteSets, TLC

(* ------------------------------------------------------------------ *)
(* constants.rs                                                        *)
(* ------------------------------------------------------------------ *)
MAX_RECIPIENTS == 35
MAX_BATCH_RELEASE == 5
DURATION_MONTHS == 12
SECONDS_PER_DAY == 86400

(* ------------------------------------------------------------------ *)
(* Result<T, VestingError>                                             *)
(* ------------------------------------------------------------------ *)
Ok(v) == [ok |-> TRUE, v |-> v, e |-> "Ok"]
Err(e) == [ok |-> FALSE, v |-> 0, e |-> e]

Min(a, b) == IF a <= b THEN a ELSE b

(* ------------------------------------------------------------------ *)
(* utils/time.rs                                                       *)
(* ------------------------------------------------------------------ *)
is_leap_year(year) ==
    (year % 4 = 0 /\ year % 100 # 0) \/ (year % 400 = 0)

days_in_month(year, month) ==
    IF month \in {1, 3, 5, 7, 8, 10, 12} THEN Ok(31)
    ELSE IF month \in {4, 6, 9, 11} THEN Ok(30)
    ELSE IF month = 2 THEN Ok(IF is_leap_year(year) THEN 29 ELSE 28)
    ELSE Err("InvalidTimestamp")

\* Howard Hinnant's days-from-civil; div_euclid by a positive divisor is \div.
days_from_civil(y0, m, d) ==
    IF ~(m \in 1..12) \/ d = 0 \/ d > 31 THEN Err("InvalidTimestamp")
    ELSE LET y   == y0 - (IF m <= 2 THEN 1 ELSE 0)
             era == (IF y >= 0 THEN y ELSE y - 399) \div 400
             yoe == y - era * 400
             mp  == m + (IF m > 2 THEN -3 ELSE 9)
             doy == ((153 * mp + 2) \div 5) + d - 1
             doe == yoe * 365 + (yoe \div 4) - (yoe \div 100) + doy
         IN  Ok(era * 146097 + doe - 719468)

\* Howard Hinnant's civil-from-days: <<year, month, day>>.
civil_from_days(z0) ==
    LET z   == z0 + 719468
        era == (IF z >= 0 THEN z ELSE z - 146096) \div 146097
        doe == z - era * 146097
        yoe == (doe - (doe \div 1460) + (doe \div 36524) - (doe \div 146096)) \div 365
        y   == yoe + era * 400
        doy == doe - (365 * yoe + (yoe \div 4) - (yoe \div 100))
        mp  == (5 * doy + 2) \div 153
        d   == doy - ((153 * mp + 2) \div 5) + 1
        m   == mp + (IF mp < 10 THEN 3 ELSE -9)
    IN  <<y + (IF m <= 2 THEN 1 ELSE 0), m, d>>

datetime_from_unix(ts) ==
    IF ts < 0 THEN Err("InvalidTimestamp")
    ELSE LET days == ts \div SECONDS_PER_DAY
             sod  == ts % SECONDS_PER_DAY
             c    == civil_from_days(days)
         IN  Ok([year |-> c[1], month |-> c[2], day |-> c[3], sod |-> sod])

unix_from_datetime(dt) ==
    IF dt.sod >= 86400 THEN Err("InvalidTimestamp")
    ELSE LET days == days_from_civil(dt.year, dt.month, dt.day)
         IN  IF ~days.ok THEN days
             ELSE Ok(days.v * SECONDS_PER_DAY + dt.sod)

add_months_ym(year, month, add) ==
    IF ~(month \in 1..12) THEN Err("InvalidTimestamp")
    ELSE LET base == year * 12 + (month - 1)
             next == base + add
         IN  Ok(<<next \div 12, (next % 12) + 1>>)

\* Faulty variant: the day of the start is used without clamping to the month.
boundary_ts_from_start_unclamped(start, months_to_add) ==
    LET ym == add_months_ym(start.year, start.month, months_to_add)
    IN  IF ~ym.ok THEN ym
        ELSE unix_from_datetime([year  |-> ym.v[1],
                                 month |-> ym.v[2],
                                 day   |-> start.day,
                                 sod   |-> start.sod])

boundary_ts_from_start(start, months_to_add) ==
    LET ym == add_months_ym(start.year, start.month, months_to_add)
    IN  IF ~ym.ok THEN ym
        ELSE LET y   == ym.v[1]
                 m   == ym.v[2]
                 dim == days_in_month(y, m)
             IN  IF ~dim.ok THEN dim
                 ELSE unix_from_datetime([year  |-> y,
                                          month |-> m,
                                          day   |-> Min(start.day, dim.v),
                                          sod   |-> start.sod])

RECURSIVE months_scan_exclusive(_, _, _, _)
\* Faulty variant: a boundary instant still belongs to the month before it.
months_scan_exclusive(now_ts, start_dt, k, last_ok) ==
    IF k > DURATION_MONTHS THEN Ok(last_ok)
    ELSE LET b == boundary_ts_from_start(start_dt, k)
         IN  IF ~b.ok THEN b
             ELSE IF now_ts > b.v
                  THEN months_scan_exclusive(now_ts, start_dt, k + 1, k)
                  ELSE Ok(last_ok)

\* The `for k in 0..=DURATION_MONTHS` loop of months_between, with its break.
RECURSIVE months_scan(_, _, _, _)
months_scan(now_ts, start_dt, k, last_ok) ==
    IF k > DURATION_MONTHS THEN Ok(last_ok)
    ELSE LET b == boundary_ts_from_start(start_dt, k)
         IN  IF ~b.ok THEN b
             ELSE IF now_ts >= b.v
                  THEN months_scan(now_ts, start_dt, k + 1, k)
                  ELSE Ok(last_ok)

months_between(now_ts, start_ts) ==
    IF now_ts < start_ts THEN Err("BeforeStart")
    ELSE LET start_dt == datetime_from_unix(start_ts)
         IN  IF ~start_dt.ok THEN start_dt
             ELSE months_scan(now_ts, start_dt.v, 0, 0)

\* Faulty variant: the index counts the boundaries passed after the start, so the
\* first month has index 0.
month_index_from_zero(now_ts, start_ts) ==
    IF now_ts < start_ts THEN Err("BeforeStart")
    ELSE LET mb == months_between(now_ts, start_ts)
         IN  IF ~mb.ok THEN mb
             ELSE Ok(Min(mb.v, DURATION_MONTHS))

\* Faulty variant: the index is not capped at the duration.
month_index_uncapped(now_ts, start_ts) ==
    IF now_ts < start_ts THEN Err("BeforeStart")
    ELSE LET mb == months_between(now_ts, start_ts)
         IN  IF ~mb.ok THEN mb
             ELSE Ok(Min(mb.v + 1, 255))

month_index(now_ts, start_ts) ==
    IF now_ts < start_ts THEN Err("BeforeStart")
    ELSE LET mb == months_between(now_ts, start_ts)
         IN  IF ~mb.ok THEN mb
             ELSE Ok(Min(Min(mb.v + 1, 255), DURATION_MONTHS))

is_after_vesting_end(now_ts, start_ts) ==
    IF now_ts < start_ts THEN Ok(FALSE)
    ELSE LET start_dt == datetime_from_unix(start_ts)
         IN  IF ~start_dt.ok THEN start_dt
             ELSE LET end_boundary == boundary_ts_from_start(start_dt.v, DURATION_MONTHS)
                  IN  IF ~end_boundary.ok THEN end_boundary
                      ELSE Ok(now_ts >= end_boundary.v)

\* The test helper ts(y, m, d, sod) of time.rs.
ts(y, m, d, sod) ==
    unix_from_datetime([year |-> y, month |-> m, day |-> d, sod |-> sod]).v

\* boundary(S, k) of a start timestamp.
boundary(start_ts, k) ==
    boundary_ts_from_start(datetime_from_unix(start_ts).v, k).v

(* ------------------------------------------------------------------ *)
(* Keys.  Pubkeys are names; ZeroKey is Pubkey::default().             *)
(* ------------------------------------------------------------------ *)
ZeroKey == "zero"
AdminKey == "admin"
MintKey == "mint"
ProgramId == "program_id"
ScheduleStateKey == "schedule_state_pda"
VaultKey == "vault_pda"
RecipientsKey == "recipients_pda"
DistributorKeys == {"dist1", "dist2"}

(* ------------------------------------------------------------------ *)
(* Bounds of the model and the inputs the operations are tried with.   *)
(* ------------------------------------------------------------------ *)
MaxInputs == 2
MaxBatch == 2
MaxExtraDeposit == 1

WalletNames == <<"w1", "w2">>
Wallets == {WalletNames[i] : i \in 1..Len(WalletNames)}
\* A wallet that is never offered to add_recipients, so never listed.
Outsider == "w9"
WalletInputs == Wallets \cup {ZeroKey, Outsider}
Signers == {AdminKey} \cup DistributorKeys

StartTs == ts(2024, 1, 31, 0)
StartInputs == {0, StartTs}
SupplyInputs == {0, 220}
DistributorInputs ==
    DistributorKeys \cup {ZeroKey, AdminKey, ProgramId, ScheduleStateKey, VaultKey, RecipientsKey}

\* Clock values: one second before the start, then the month boundaries visited.
MonthsVisited == {0, 2, 6, 11, 12}
Instants == {StartTs - 1} \cup {boundary(StartTs, k) : k \in MonthsVisited}

\* month_index and is_after_vesting_end at the clock values and start of the model,
\* computed once; any other argument is computed on the spot.
MonthIndexTable == [t \in Instants |-> month_index(t, StartTs)]
month_index_at(now_ts, start_ts) ==
    IF start_ts = StartTs /\ now_ts \in Instants THEN MonthIndexTable[now_ts]
    ELSE month_index(now_ts, start_ts)

VestingEndTable == [t \in Instants |-> is_after_vesting_end(t, StartTs)]
is_after_vesting_end_at(now_ts, start_ts) ==
    IF start_ts = StartTs /\ now_ts \in Instants THEN VestingEndTable[now_ts]
    ELSE is_after_vesting_end(now_ts, start_ts)

RECURSIVE SeqsUpTo(_, _)
SeqsUpTo(S, n) ==
    IF n = 0 THEN {<<>>}
    ELSE LET shorter == SeqsUpTo(S, n - 1)
         IN  shorter \cup {Append(q, x) : q \in {r \in shorter : Len(r) = n - 1}, x \in S}

\* RecipientInput values tried: every wallet with 100 or 120, a zero wallet, a zero allocation.
RecipientInputs ==
    [wallet : Wallets, allocation : {100, 120}]
        \cup {[wallet |-> ZeroKey, allocation |-> 100],
              [wallet |-> WalletNames[1], allocation |-> 0]}

\* Token accounts offered as a release destination: the associated account of
\* (wallet, mint), and an account of the same owner and mint at another address.
Ata(wallet) == [key |-> <<"ata", wallet, MintKey>>, mint |-> MintKey, owner |-> wallet]
Stray(wallet) == [key |-> <<"stray", wallet, MintKey>>, mint |-> MintKey, owner |-> wallet]

(* ------------------------------------------------------------------ *)
(* state/schedule_state.rs, state/recipients.rs                        *)
(* ------------------------------------------------------------------ *)
VARIABLES
    initialized,        \* the three program accounts exist
    st,                 \* ScheduleState
    entries,            \* Recipients.entries, a fixed array of MAX_RECIPIENTS
    vault,              \* vault.amount
    now,                \* Clock::get().unix_timestamp
    deposits_received,  \* total moved into the vault by deposit_tokens
    taken_out,          \* total moved out by admin_withdraw and sweep_dust_after_end
    released_events     \* total of the amounts of the release events emitted

vars == <<initialized, st, entries, vault, now, deposits_received, taken_out,
          released_events>>

DefaultEntry ==
    [wallet |-> ZeroKey, allocation |-> 0, released_amount |-> 0, revoked |-> 0,
     monthly_amount |-> 0, final_amount |-> 0]

ZeroState ==
    [mint |-> ZeroKey, admin |-> ZeroKey, distributor |-> ZeroKey, start_ts |-> 0,
     duration_months |-> 0, paused |-> FALSE, total_supply |-> 0, released_supply |-> 0,
     recipient_count |-> 0, sealed |-> FALSE]

\* What a handler leaves behind: a result code, the account contents and the events
\* emitted.  A failed transaction is rolled back by the host, so a failure carries
\* the contents at entry and no event.
Outcome(res, s, es, v, evs) ==
    [res |-> res, st |-> s, entries |-> es, vault |-> v, events |-> evs]
Fail(e) == Outcome(e, st, entries, vault, <<>>)

\* The amounts of the TokensReleased and TokensReleasedBatchItem events of a list
\* of events, added up.
RECURSIVE ReleaseEventsSum(_)
ReleaseEventsSum(events) ==
    IF events = <<>> THEN 0
    ELSE (IF Head(events).name \in {"TokensReleased", "TokensReleasedBatchItem"}
          THEN Head(events).amount ELSE 0)
             + ReleaseEventsSum(Tail(events))

\* A successful transaction: the account contents are written and its events
\* are emitted.
Commit(out) ==
    /\ out.res = "Ok"
    /\ st' = out.st
    /\ entries' = out.entries
    /\ vault' = out.vault
    /\ released_events' = released_events + ReleaseEventsSum(out.events)

Init ==
    /\ initialized = FALSE
    /\ st = ZeroState
    /\ entries = [i \in 1..MAX_RECIPIENTS |-> DefaultEntry]
    /\ vault = 0
    /\ now = StartTs - 1
    /\ deposits_received = 0
    /\ taken_out = 0
    /\ released_events = 0

\* The host clock: non-decreasing, advanced to the next instant of the model.
Tick ==
    /\ \E t \in Instants :
         /\ t > now
         /\ \A u \in Instants : u > now => t <= u
         /\ now' = t
    /\ UNCHANGED <<initialized, st, entries, vault, deposits_received, taken_out,
                   released_events>>

(* ------------------------------------------------------------------ *)
(* instructions/initialize_schedule.rs                                 *)
(* ------------------------------------------------------------------ *)
initialize_schedule(signer, distributor, start_ts, total_supply) ==
    IF ~(total_supply > 0) THEN Fail("InvalidConfig")
    ELSE IF ~(start_ts > 0) THEN Fail("InvalidTimestamp")
    ELSE IF distributor = ZeroKey THEN Fail("InvalidPubkey")
    ELSE IF distributor = signer THEN Fail("InvalidConfig")
    ELSE IF distributor = ScheduleStateKey THEN Fail("InvalidConfig")
    ELSE IF distributor = ProgramId THEN Fail("InvalidConfig")
    ELSE IF distributor = VaultKey THEN Fail("InvalidConfig")
    ELSE IF distributor = RecipientsKey THEN Fail("InvalidConfig")
    ELSE Outcome("Ok",
                 [mint |-> MintKey, admin |-> signer, distributor |-> distributor,
                  start_ts |-> start_ts, duration_months |-> DURATION_MONTHS,
                  paused |-> FALSE, total_supply |-> total_supply, released_supply |-> 0,
                  recipient_count |-> 0, sealed |-> FALSE],
                 [i \in 1..MAX_RECIPIENTS |-> DefaultEntry],
                 0, <<>>)

InitializeSchedule ==
    /\ ~initialized
    /\ \E distributor \in DistributorInputs, start_ts \in StartInputs, total_supply \in SupplyInputs :
         /\ Commit(initialize_schedule(AdminKey, distributor, start_ts, total_supply))
         /\ initialized' = TRUE
    /\ UNCHANGED <<now, deposits_received, taken_out>>

(* ------------------------------------------------------------------ *)
(* instructions/add_recipients.rs                                      *)
(* ------------------------------------------------------------------ *)
RECURSIVE SumAllocations(_, _)
SumAllocations(es, n) ==
    IF n = 0 THEN 0 ELSE es[n].allocation + SumAllocations(es, n - 1)

allocations_sum_u128(es, count) == SumAllocations(es, count)

\* The `for (i, input) in inputs` loop: the result code, recipient_count and entries.
RECURSIVE add_loop(_, _, _, _)

\* Faulty variant: the division remainder is dropped instead of going to the last month.
new_entry_no_remainder(input, monthly_amount, remainder) ==
    [wallet |-> input.wallet, allocation |-> input.allocation,
     released_amount |-> 0, revoked |-> 0,
     monthly_amount |-> monthly_amount,
     final_amount |-> monthly_amount]

\* Faulty variant: the last month gets the remainder alone.
new_entry_final_is_remainder(input, monthly_amount, remainder) ==
    [wallet |-> input.wallet, allocation |-> input.allocation,
     released_amount |-> 0, revoked |-> 0,
     monthly_amount |-> monthly_amount,
     final_amount |-> remainder]

\* Lines 43-58: the derived amounts and the entry written.
new_entry(input, monthly_amount, remainder) ==
    [wallet |-> input.wallet, allocation |-> input.allocation,
     released_amount |-> 0, revoked |-> 0,
     monthly_amount |-> monthly_amount,
     final_amount |-> monthly_amount + remainder]

RECURSIVE add_loop_allowing_duplicates(_, _, _, _)
\* Faulty variant: a wallet already in the list, or repeated in the call, is accepted.
add_loop_allowing_duplicates(inputs, i, count, es) ==
    IF i > Len(inputs) THEN [res |-> "Ok", count |-> count, entries |-> es]
    ELSE IF inputs[i].wallet = ZeroKey
         THEN [res |-> "InvalidPubkey", count |-> count, entries |-> es]
    ELSE IF ~(inputs[i].allocation > 0)
         THEN [res |-> "InvalidAllocation", count |-> count, entries |-> es]
    ELSE IF ~(count < MAX_RECIPIENTS)
         THEN [res |-> "RecipientListFull", count |-> count, entries |-> es]
    ELSE add_loop_allowing_duplicates(
             inputs, i + 1, count + 1,
             [es EXCEPT ![count + 1] =
                 new_entry(inputs[i],
                           inputs[i].allocation \div DURATION_MONTHS,
                           inputs[i].allocation % DURATION_MONTHS)])

add_loop(inputs, i, count, es) ==
    IF i > Len(inputs) THEN [res |-> "Ok", count |-> count, entries |-> es]
    ELSE IF inputs[i].wallet = ZeroKey
         THEN [res |-> "InvalidPubkey", count |-> count, entries |-> es]
    ELSE IF ~(inputs[i].allocation > 0)
         THEN [res |-> "InvalidAllocation", count |-> count, entries |-> es]
    ELSE IF ~(count < MAX_RECIPIENTS)
         THEN [res |-> "RecipientListFull", count |-> count, entries |-> es]
    ELSE IF \E k \in 1..count : es[k].wallet = inputs[i].wallet
         THEN [res |-> "DuplicateRecipient", count |-> count, entries |-> es]
    ELSE IF \E j \in 1..(i - 1) : inputs[j].wallet = inputs[i].wallet
         THEN [res |-> "DuplicateRecipient", count |-> count, entries |-> es]
    ELSE add_loop(inputs, i + 1, count + 1,
                  [es EXCEPT ![count + 1] =
                      new_entry(inputs[i],
                                inputs[i].allocation \div DURATION_MONTHS,
                                inputs[i].allocation % DURATION_MONTHS)])

\* Faulty variant: sealing does not compare the sum with total_supply.
add_sealed_no_mismatch(r, seal, sum) ==
    IF ~(sum <= st.total_supply) THEN Fail("AllocationSumExceedsTotalSupply")
    ELSE Outcome("Ok", [st EXCEPT !.recipient_count = r.count, !.sealed = seal],
                 r.entries, vault, <<>>)

\* Lines 66-90: the allocation sum against total_supply, and the seal.
add_sealed(r, seal, sum) ==
    IF ~(sum <= st.total_supply) THEN Fail("AllocationSumExceedsTotalSupply")
    ELSE IF seal /\ sum # st.total_supply THEN Fail("AllocationSumMismatchAtSeal")
    ELSE Outcome("Ok", [st EXCEPT !.recipient_count = r.count, !.sealed = (@ \/ seal)],
                 r.entries, vault, <<>>)

add_summed(r, seal) ==
    IF r.res # "Ok" THEN Fail(r.res)
    ELSE add_sealed(r, seal, allocations_sum_u128(r.entries, r.count))

\* Faulty variant: a sealed list still accepts recipients.
add_recipients_after_seal(signer, inputs, seal) ==
    IF signer # st.admin THEN Fail("UnauthorizedAdmin")
    ELSE IF st.duration_months # DURATION_MONTHS THEN Fail("InvalidConfig")
    ELSE add_summed(add_loop(inputs, 1, st.recipient_count, entries), seal)

add_recipients(signer, inputs, seal) ==
    IF signer # st.admin THEN Fail("UnauthorizedAdmin")
    ELSE IF st.sealed THEN Fail("RecipientsSealed")
    ELSE IF st.duration_months # DURATION_MONTHS THEN Fail("InvalidConfig")
    ELSE add_summed(add_loop(inputs, 1, st.recipient_count, entries), seal)

\* The admin is tried with every input list, another signer with one valid list.
InputLists == SeqsUpTo(RecipientInputs, MaxInputs)
AddInputs(signer) ==
    IF signer = AdminKey THEN InputLists
    ELSE {<<[wallet |-> WalletNames[1], allocation |-> 100]>>}

AddRecipients ==
    /\ initialized
    /\ \E signer \in Signers, seal \in BOOLEAN :
         \E inputs \in AddInputs(signer) :
             Commit(add_recipients(signer, inputs, seal))
    /\ UNCHANGED <<initialized, now, deposits_received, taken_out>>

(* ------------------------------------------------------------------ *)
(* instructions/deposit_tokens.rs                                      *)
(* ------------------------------------------------------------------ *)
\* Faulty variant: no over-deposit protection.
deposit_tokens_no_cap(signer, amount) ==
    IF ~(amount > 0) THEN Fail("InvalidConfig")
    ELSE IF signer # st.admin THEN Fail("UnauthorizedAdmin")
    ELSE IF ~(now < st.start_ts) THEN Fail("DepositAfterStart")
    ELSE Outcome("Ok", st, entries, vault + amount, <<>>)

\* Faulty variant: deposits are accepted after the start as well.
deposit_tokens_any_time(signer, amount) ==
    IF ~(amount > 0) THEN Fail("InvalidConfig")
    ELSE IF signer # st.admin THEN Fail("UnauthorizedAdmin")
    ELSE IF ~(vault + amount <= st.total_supply) THEN Fail("OverDeposit")
    ELSE Outcome("Ok", st, entries, vault + amount, <<>>)

\* Faulty variant: the vault must stay strictly below total_supply.
deposit_tokens_strict_cap(signer, amount) ==
    IF ~(amount > 0) THEN Fail("InvalidConfig")
    ELSE IF signer # st.admin THEN Fail("UnauthorizedAdmin")
    ELSE IF ~(now < st.start_ts) THEN Fail("DepositAfterStart")
    ELSE IF ~(vault + amount < st.total_supply) THEN Fail("OverDeposit")
    ELSE Outcome("Ok", st, entries, vault + amount, <<>>)

deposit_tokens(signer, amount) ==
    IF ~(amount > 0) THEN Fail("InvalidConfig")
    ELSE IF signer # st.admin THEN Fail("UnauthorizedAdmin")
    ELSE IF ~(now < st.start_ts) THEN Fail("DepositAfterStart")
    ELSE IF ~(vault + amount <= st.total_supply) THEN Fail("OverDeposit")
    ELSE Outcome("Ok", st, entries, vault + amount, <<>>)

\* Amounts tried: nothing, one short of full funding, exact funding, one too many;
\* deposits_received is kept within total_supply + MaxExtraDeposit.
DepositAmounts ==
    {a \in {0, st.total_supply - vault - 1, st.total_supply - vault,
            st.total_supply - vault + 1} :
        a >= 0 /\ deposits_received + a <= st.total_supply + MaxExtraDeposit}

DepositTokens ==
    /\ initialized
    /\ \E signer \in Signers :
         \E amount \in IF signer = AdminKey THEN DepositAmounts ELSE {1} :
         /\ Commit(deposit_tokens(signer, amount))
         /\ deposits_received' = deposits_received + (vault' - vault)
    /\ UNCHANGED <<initialized, now, taken_out>>

(* ------------------------------------------------------------------ *)
(* instructions/set_distributor.rs, pause.rs, unpause.rs               *)
(* ------------------------------------------------------------------ *)
\* Faulty variant: the vault and recipients addresses are not excluded.
set_distributor_pda_unchecked(signer, new_distributor) ==
    IF new_distributor = ZeroKey THEN Fail("InvalidPubkey")
    ELSE IF signer # st.admin THEN Fail("UnauthorizedAdmin")
    ELSE IF new_distributor = st.admin THEN Fail("InvalidConfig")
    ELSE IF new_distributor = ScheduleStateKey THEN Fail("InvalidConfig")
    ELSE IF new_distributor = ProgramId THEN Fail("InvalidConfig")
    ELSE Outcome("Ok", [st EXCEPT !.distributor = new_distributor], entries, vault, <<>>)

set_distributor(signer, new_distributor) ==
    IF new_distributor = ZeroKey THEN Fail("InvalidPubkey")
    ELSE IF signer # st.admin THEN Fail("UnauthorizedAdmin")
    ELSE IF new_distributor = st.admin THEN Fail("InvalidConfig")
    ELSE IF new_distributor = ScheduleStateKey THEN Fail("InvalidConfig")
    ELSE IF new_distributor = ProgramId THEN Fail("InvalidConfig")
    ELSE IF new_distributor = VaultKey THEN Fail("InvalidConfig")
    ELSE IF new_distributor = RecipientsKey THEN Fail("InvalidConfig")
    ELSE Outcome("Ok", [st EXCEPT !.distributor = new_distributor], entries, vault, <<>>)

SetDistributor ==
    /\ initialized
    /\ \E signer \in Signers :
         \E new_distributor \in IF signer = AdminKey THEN DistributorInputs
                                ELSE DistributorKeys \ {signer} :
             Commit(set_distributor(signer, new_distributor))
    /\ UNCHANGED <<initialized, now, deposits_received, taken_out>>

\* Faulty variant: any signer may pause.
pause_by_anyone(signer) ==
    IF st.paused THEN Fail("SchedulePaused")
    ELSE Outcome("Ok", [st EXCEPT !.paused = TRUE], entries, vault, <<>>)

\* Faulty variant: pausing a paused schedule is accepted.
pause_when_paused(signer) ==
    IF signer # st.admin THEN Fail("UnauthorizedAdmin")
    ELSE Outcome("Ok", [st EXCEPT !.paused = TRUE], entries, vault, <<>>)

pause(signer) ==
    IF signer # st.admin THEN Fail("UnauthorizedAdmin")
    ELSE IF st.paused THEN Fail("SchedulePaused")
    ELSE Outcome("Ok", [st EXCEPT !.paused = TRUE], entries, vault, <<>>)

Pause ==
    /\ initialized
    /\ \E signer \in Signers : Commit(pause(signer))
    /\ UNCHANGED <<initialized, now, deposits_received, taken_out>>

\* Faulty variant: unpausing restarts the schedule at the current time.
unpause_restarting(signer) ==
    IF signer # st.admin THEN Fail("UnauthorizedAdmin")
    ELSE IF ~st.paused THEN Fail("ScheduleNotPaused")
    ELSE Outcome("Ok", [st EXCEPT !.paused = FALSE, !.start_ts = now], entries, vault, <<>>)

unpause(signer) ==
    IF signer # st.admin THEN Fail("UnauthorizedAdmin")
    ELSE IF ~st.paused THEN Fail("ScheduleNotPaused")
    ELSE Outcome("Ok", [st EXCEPT !.paused = FALSE], entries, vault, <<>>)

Unpause ==
    /\ initialized
    /\ \E signer \in Signers : Commit(unpause(signer))
    /\ UNCHANGED <<initialized, now, deposits_received, taken_out>>

(* ------------------------------------------------------------------ *)
(* instructions/revoke_recipient.rs                                    *)
(* ------------------------------------------------------------------ *)
\* Index of the first of the first n entries holding the wallet; 0 when none does.
FindEntry(es, n, wallet) ==
    LET hits == {i \in 1..n : es[i].wallet = wallet}
    IN  IF hits = {} THEN 0 ELSE CHOOSE i \in hits : \A j \in hits : i <= j

\* Faulty variant: revoking a revoked recipient reinstates it.
revoke_entry_toggle(i) ==
    IF i = 0 THEN Fail("RecipientNotFound")
    ELSE Outcome("Ok", st, [entries EXCEPT ![i].revoked = 1 - @], vault, <<>>)

revoke_entry(i) ==
    IF i = 0 THEN Fail("RecipientNotFound")
    ELSE IF entries[i].revoked # 0 THEN Fail("RecipientRevoked")
    ELSE Outcome("Ok", st, [entries EXCEPT ![i].revoked = 1], vault, <<>>)

revoke_recipient(signer, wallet) ==
    IF signer # st.admin THEN Fail("UnauthorizedAdmin")
    ELSE revoke_entry(FindEntry(entries, st.recipient_count, wallet))

RevokeRecipient ==
    /\ initialized
    /\ \E signer \in Signers :
         \E wallet \in IF signer = AdminKey THEN WalletInputs ELSE {WalletNames[1]} :
             Commit(revoke_recipient(signer, wallet))
    /\ UNCHANGED <<initialized, now, deposits_received, taken_out>>

(* ------------------------------------------------------------------ *)
(* instructions/release_to_recipient.rs                                *)
(* ------------------------------------------------------------------ *)
\* Faulty variant: the last month is paid on top of twelve monthly amounts.
vested_amount_twelve(monthly, final_amount, month_idx) ==
    LET m == Min(month_idx, DURATION_MONTHS)
    IN  IF m = DURATION_MONTHS THEN monthly * 12 + final_amount
        ELSE monthly * m

\* Faulty variant: the last month vests twelve monthly amounts, dropping the
\* remainder kept in final_amount.
vested_amount_no_final(monthly, final_amount, month_idx) ==
    monthly * Min(month_idx, DURATION_MONTHS)

vested_amount(monthly, final_amount, month_idx) ==
    LET m == Min(month_idx, DURATION_MONTHS)
    IN  IF m = DURATION_MONTHS THEN monthly * 11 + final_amount
        ELSE monthly * m

expected_ata_address(owner, mint) == <<"ata", owner, mint>>

\* Faulty variant: released_total is reported as it was before the transfer.
TokensReleased_before_transfer(name, wallet, month_idx, amount, entry) ==
    [name |-> name, wallet |-> wallet, month_index |-> month_idx, amount |-> amount,
     allocation |-> entry.allocation, released_total |-> entry.released_amount - amount]

TokensReleased(name, wallet, month_idx, amount, entry) ==
    [name |-> name, wallet |-> wallet, month_index |-> month_idx, amount |-> amount,
     allocation |-> entry.allocation, released_total |-> entry.released_amount]

\* Faulty variant: released_supply is not advanced.
release_commit_entry_only(wallet, month_idx, i, releasable, entry) ==
    Outcome("Ok", st, [entries EXCEPT ![i] = entry], vault - releasable,
            <<TokensReleased("TokensReleased", wallet, month_idx, releasable, entry)>>)

\* Lines 97-112: the entry and released_supply advance, the vault pays, the event.
release_commit(wallet, month_idx, i, releasable, entry) ==
    Outcome("Ok",
            [st EXCEPT !.released_supply = @ + releasable],
            [entries EXCEPT ![i] = entry],
            vault - releasable,
            <<TokensReleased("TokensReleased", wallet, month_idx, releasable, entry)>>)

\* Faulty variant: a zero releasable amount goes through the transfer path.
release_transfer_always(wallet, month_idx, i, releasable) ==
    IF ~(vault >= releasable) THEN Fail("InsufficientVaultBalance")
    ELSE release_commit(wallet, month_idx, i, releasable,
                        [entries[i] EXCEPT !.released_amount = @ + releasable])

\* Lines 73-95: the zero-releasable return, the balance check and the transfer.
release_transfer(wallet, month_idx, i, releasable) ==
    IF releasable = 0 THEN Outcome("Ok", st, entries, vault, <<>>)
    ELSE IF ~(vault >= releasable) THEN Fail("InsufficientVaultBalance")
    ELSE release_commit(wallet, month_idx, i, releasable,
                        [entries[i] EXCEPT !.released_amount = @ + releasable])

\* Faulty variant: one call pays one monthly amount at most, without catch-up.
release_vested_one_month(wallet, month_idx, i, vested) ==
    IF vested < entries[i].released_amount THEN Fail("MathOverflow")
    ELSE release_transfer(wallet, month_idx, i,
                          Min(vested - entries[i].released_amount,
                              entries[i].monthly_amount))

\* Lines 69-72: vested and the checked subtraction.
release_vested(wallet, month_idx, i, vested) ==
    IF vested < entries[i].released_amount THEN Fail("MathOverflow")
    ELSE release_transfer(wallet, month_idx, i, vested - entries[i].released_amount)

\* Faulty variant: a revoked entry is still paid what has vested.
release_entry_paying_revoked(wallet, recipient_ata, month_idx, i) ==
    IF i = 0 THEN Fail("RecipientNotFound")
    ELSE IF recipient_ata.key # expected_ata_address(wallet, st.mint)
         THEN Fail("InvalidRecipientAta")
    ELSE IF recipient_ata.mint # st.mint THEN Fail("InvalidTokenMint")
    ELSE IF recipient_ata.owner # wallet THEN Fail("InvalidTokenAccount")
    ELSE release_vested(wallet, month_idx, i,
                        vested_amount(entries[i].monthly_amount,
                                      entries[i].final_amount, month_idx))

\* Lines 34-67: the entry found, the destination checks, the revoked return.
release_entry(wallet, recipient_ata, month_idx, i) ==
    IF i = 0 THEN Fail("RecipientNotFound")
    ELSE IF recipient_ata.key # expected_ata_address(wallet, st.mint)
         THEN Fail("InvalidRecipientAta")
    ELSE IF recipient_ata.mint # st.mint THEN Fail("InvalidTokenMint")
    ELSE IF recipient_ata.owner # wallet THEN Fail("InvalidTokenAccount")
    ELSE IF entries[i].revoked # 0 THEN Outcome("Ok", st, entries, vault, <<>>)
    ELSE release_vested(wallet, month_idx, i,
                        vested_amount(entries[i].monthly_amount,
                                      entries[i].final_amount, month_idx))

\* Faulty variant: the exact-funding gate is missing.
release_funded_no_gate(wallet, recipient_ata, month_idx) ==
    IF ~month_idx.ok THEN Fail(month_idx.e)
    ELSE release_entry(wallet, recipient_ata, month_idx.v,
                       FindEntry(entries, st.recipient_count, wallet))

\* Lines 23-32: the month index and the exact-funding gate.
release_funded(wallet, recipient_ata, month_idx) ==
    IF ~month_idx.ok THEN Fail(month_idx.e)
    ELSE IF st.released_supply = 0 /\ vault # st.total_supply
         THEN Fail("VaultNotExactlyFunded")
    ELSE release_entry(wallet, recipient_ata, month_idx.v,
                       FindEntry(entries, st.recipient_count, wallet))

\* Faulty variant: the pause flag is not consulted.
release_ignoring_pause(signer, wallet, recipient_ata) ==
    IF ~st.sealed THEN Fail("RecipientsNotSealed")
    ELSE IF signer # st.distributor THEN Fail("UnauthorizedDistributor")
    ELSE release_funded(wallet, recipient_ata, month_index_at(now, st.start_ts))

release_to_recipient(signer, wallet, recipient_ata) ==
    IF ~st.sealed THEN Fail("RecipientsNotSealed")
    ELSE IF st.paused THEN Fail("SchedulePaused")
    ELSE IF signer # st.distributor THEN Fail("UnauthorizedDistributor")
    ELSE release_funded(wallet, recipient_ata, month_index_at(now, st.start_ts))

ReleaseToRecipient ==
    /\ initialized
    /\ \E signer \in Signers :
         \E wallet \in IF signer = st.distributor THEN WalletInputs ELSE {WalletNames[1]} :
             \E recipient_ata \in IF signer = st.distributor
                                  THEN {Ata(wallet), Stray(wallet)} ELSE {Ata(wallet)} :
                 Commit(release_to_recipient(signer, wallet, recipient_ata))
    /\ UNCHANGED <<initialized, now, deposits_received, taken_out>>

(* ------------------------------------------------------------------ *)
(* lib.rs: batch_release                                               *)
(* ------------------------------------------------------------------ *)
\* Faulty variant: the batch pays twelve monthly amounts, without the remainder.
batch_vested_flat(entry, month_idx) ==
    entry.monthly_amount * Min(month_idx, DURATION_MONTHS)

\* Lines 207-222: the vested block inlined in the batch loop.
batch_vested(entry, month_idx) ==
    LET m == Min(month_idx, DURATION_MONTHS)
    IN  IF m = DURATION_MONTHS THEN entry.monthly_amount * 11 + entry.final_amount
        ELSE entry.monthly_amount * m

\* The `for (i, wallet) in wallets` loop: acc carries the result code, the schedule
\* state, the entries, the shadow vault balance and the events emitted so far.
RECURSIVE batch_loop(_, _, _, _, _)

\* Faulty variant: released_supply is not advanced by a batch item.
batch_commit_entry_only(acc, wallet, month_idx, k, releasable, entry) ==
    Outcome("Ok", acc.st, [acc.entries EXCEPT ![k] = entry], acc.vault - releasable,
            Append(acc.events,
                   TokensReleased("TokensReleasedBatchItem", wallet, month_idx,
                                  releasable, entry)))

\* Lines 246-265: the shadow balance, the entry and released_supply advance, the event.
batch_commit(acc, wallet, month_idx, k, releasable, entry) ==
    Outcome("Ok",
            [acc.st EXCEPT !.released_supply = @ + releasable],
            [acc.entries EXCEPT ![k] = entry],
            acc.vault - releasable,
            Append(acc.events,
                   TokensReleased("TokensReleasedBatchItem", wallet, month_idx,
                                  releasable, entry)))

\* Lines 227-244: the zero-releasable skip and the shadow balance check.
batch_pay(wallets, accounts, month_idx, i, acc, k, releasable) ==
    IF releasable = 0 THEN batch_loop(wallets, accounts, month_idx, i + 1, acc)
    ELSE IF ~(acc.vault >= releasable) THEN [acc EXCEPT !.res = "InsufficientVaultBalance"]
    ELSE batch_loop(wallets, accounts, month_idx, i + 1,
                    batch_commit(acc, wallets[i], month_idx, k, releasable,
                                 [acc.entries[k] EXCEPT !.released_amount = @ + releasable]))

\* Lines 224-226: the checked subtraction.
batch_item(wallets, accounts, month_idx, i, acc, k, vested) ==
    IF vested < acc.entries[k].released_amount THEN [acc EXCEPT !.res = "MathOverflow"]
    ELSE batch_pay(wallets, accounts, month_idx, i, acc, k,
                   vested - acc.entries[k].released_amount)

\* Faulty variant: a revoked recipient aborts the batch.
batch_entry_revoked_aborts(wallets, accounts, month_idx, i, acc, k) ==
    IF accounts[i].key # expected_ata_address(wallets[i], acc.st.mint)
    THEN [acc EXCEPT !.res = "InvalidRecipientAta"]
    ELSE IF accounts[i].mint # acc.st.mint THEN [acc EXCEPT !.res = "InvalidTokenMint"]
    ELSE IF accounts[i].owner # wallets[i] THEN [acc EXCEPT !.res = "InvalidTokenAccount"]
    ELSE IF k = 0 THEN [acc EXCEPT !.res = "RecipientNotFound"]
    ELSE IF acc.entries[k].revoked # 0 THEN [acc EXCEPT !.res = "RecipientRevoked"]
    ELSE batch_item(wallets, accounts, month_idx, i, acc, k,
                    batch_vested(acc.entries[k], month_idx))

\* Faulty variant: the batch pays a revoked recipient like any other.
batch_entry_paying_revoked(wallets, accounts, month_idx, i, acc, k) ==
    IF accounts[i].key # expected_ata_address(wallets[i], acc.st.mint)
    THEN [acc EXCEPT !.res = "InvalidRecipientAta"]
    ELSE IF accounts[i].mint # acc.st.mint THEN [acc EXCEPT !.res = "InvalidTokenMint"]
    ELSE IF accounts[i].owner # wallets[i] THEN [acc EXCEPT !.res = "InvalidTokenAccount"]
    ELSE IF k = 0 THEN [acc EXCEPT !.res = "RecipientNotFound"]
    ELSE batch_item(wallets, accounts, month_idx, i, acc, k,
                    batch_vested(acc.entries[k], month_idx))

\* Lines 169-222: the destination checks, the entry found over the whole array
\* (default slots included), the revoked skip, vested.
batch_entry(wallets, accounts, month_idx, i, acc, k) ==
    IF accounts[i].key # expected_ata_address(wallets[i], acc.st.mint)
    THEN [acc EXCEPT !.res = "InvalidRecipientAta"]
    ELSE IF accounts[i].mint # acc.st.mint THEN [acc EXCEPT !.res = "InvalidTokenMint"]
    ELSE IF accounts[i].owner # wallets[i] THEN [acc EXCEPT !.res = "InvalidTokenAccount"]
    ELSE IF k = 0 THEN [acc EXCEPT !.res = "RecipientNotFound"]
    ELSE IF acc.entries[k].revoked # 0
         THEN batch_loop(wallets, accounts, month_idx, i + 1, acc)
    ELSE batch_item(wallets, accounts, month_idx, i, acc, k,
                    batch_vested(acc.entries[k], month_idx))

batch_loop(wallets, accounts, month_idx, i, acc) ==
    IF i > Len(wallets) THEN acc
    ELSE batch_entry(wallets, accounts, month_idx, i, acc,
                     FindEntry(acc.entries, MAX_RECIPIENTS, wallets[i]))

\* Faulty variant: a failed item leaves the effects of the earlier items in place.
batch_result_partial(r) == r

\* A failed item aborts the transaction: the host rolls every earlier item back.
batch_result(r) == IF r.res = "Ok" THEN r ELSE Fail(r.res)

\* Faulty variant: the batch does not check the funding of the vault.
batch_funded_no_gate(wallets, remaining_accounts, month_idx) ==
    IF ~month_idx.ok THEN Fail(month_idx.e)
    ELSE batch_result(batch_loop(wallets, remaining_accounts, month_idx.v, 1,
                                 Outcome("Ok", st, entries, vault, <<>>)))

\* Lines 147-164: the month index and the exact-funding gate, at batch entry.
batch_funded(wallets, remaining_accounts, month_idx) ==
    IF ~month_idx.ok THEN Fail(month_idx.e)
    ELSE IF st.released_supply = 0 /\ vault # st.total_supply
         THEN Fail("VaultNotExactlyFunded")
    ELSE batch_result(batch_loop(wallets, remaining_accounts, month_idx.v, 1,
                                 Outcome("Ok", st, entries, vault, <<>>)))

\* Faulty variant: a batch of MAX_BATCH_RELEASE wallets is already too large.
batch_release_size_exclusive(signer, wallets, remaining_accounts) ==
    IF ~st.sealed THEN Fail("RecipientsNotSealed")
    ELSE IF st.paused THEN Fail("SchedulePaused")
    ELSE IF signer # st.distributor THEN Fail("UnauthorizedDistributor")
    ELSE IF Len(wallets) = 0 THEN Fail("EmptyBatch")
    ELSE IF ~(Len(wallets) < MAX_BATCH_RELEASE) THEN Fail("BatchTooLarge")
    ELSE IF Len(remaining_accounts) # Len(wallets) THEN Fail("InvalidConfig")
    ELSE batch_funded(wallets, remaining_accounts, month_index_at(now, st.start_ts))

batch_release(signer, wallets, remaining_accounts) ==
    IF ~st.sealed THEN Fail("RecipientsNotSealed")
    ELSE IF st.paused THEN Fail("SchedulePaused")
    ELSE IF signer # st.distributor THEN Fail("UnauthorizedDistributor")
    ELSE IF Len(wallets) = 0 THEN Fail("EmptyBatch")
    ELSE IF ~(Len(wallets) <= MAX_BATCH_RELEASE) THEN Fail("BatchTooLarge")
    ELSE IF Len(remaining_accounts) # Len(wallets) THEN Fail("InvalidConfig")
    ELSE batch_funded(wallets, remaining_accounts, month_index_at(now, st.start_ts))

\* Wallet lists tried: every list of up to MaxBatch offered wallets, the same lists
\* with the zero key or the outsider as their last item, and one list that is one
\* longer than MAX_BATCH_RELEASE.
BatchWallets ==
    SeqsUpTo(Wallets, MaxBatch)
        \cup {Append(q, x) : q \in SeqsUpTo(Wallets, MaxBatch - 1), x \in {ZeroKey, Outsider}}
        \cup {[i \in 1..(MAX_BATCH_RELEASE + 1) |-> WalletNames[1]]}

\* Destination lists tried: the associated accounts in order (the only one tried
\* for the over-long list); the same with the last one replaced by a stray account;
\* the same with the last one missing.
BatchAccounts(wallets) ==
    LET n    == Len(wallets)
        good == [i \in 1..n |-> Ata(wallets[i])]
    IN  IF n = 0 \/ n > MaxBatch THEN {good}
        ELSE {good, [good EXCEPT ![n] = Stray(wallets[n])], SubSeq(good, 1, n - 1)}

\* The stored distributor is tried with every list, another signer with one.
BatchRelease ==
    /\ initialized
    /\ \E signer \in Signers :
         \E wallets \in IF signer = st.distributor THEN BatchWallets
                        ELSE {<<WalletNames[1]>>} :
             \E remaining_accounts \in IF signer = st.distributor
                                       THEN BatchAccounts(wallets)
                                       ELSE {<<Ata(WalletNames[1])>>} :
                 Commit(batch_release(signer, wallets, remaining_accounts))
    /\ UNCHANGED <<initialized, now, deposits_received, taken_out>>

(* ------------------------------------------------------------------ *)
(* instructions/emit_vesting_quote.rs                                  *)
(* ------------------------------------------------------------------ *)
\* Faulty variant: the twelfth month is quoted as twelve monthly amounts.
quote_vested_amount_flat(monthly, final_amount, month_idx) ==
    monthly * Min(month_idx, DURATION_MONTHS)

quote_vested_amount(monthly, final_amount, month_idx) ==
    LET m == Min(month_idx, DURATION_MONTHS)
    IN  IF m = DURATION_MONTHS THEN monthly * 11 + final_amount
        ELSE monthly * m

quote_event(wallet, month_idx, i, vested) ==
    IF vested < entries[i].released_amount THEN Fail("MathOverflow")
    ELSE Outcome("Ok", st, entries, vault,
                 <<[name |-> "VestingQuote", wallet |-> wallet, month_index |-> month_idx,
                    vested_amount |-> vested,
                    released_amount |-> entries[i].released_amount,
                    releasable |-> vested - entries[i].released_amount]>>)

quote_entry(wallet, month_idx, i) ==
    IF i = 0 THEN Fail("RecipientNotFound")
    ELSE quote_event(wallet, month_idx, i,
                     quote_vested_amount(entries[i].monthly_amount,
                                         entries[i].final_amount, month_idx))

quote_at(wallet, month_idx) ==
    IF ~month_idx.ok THEN Fail(month_idx.e)
    ELSE quote_entry(wallet, month_idx.v, FindEntry(entries, st.recipient_count, wallet))

emit_vesting_quote(wallet) == quote_at(wallet, month_index_at(now, st.start_ts))

EmitVestingQuote ==
    /\ initialized
    /\ \E wallet \in WalletInputs : Commit(emit_vesting_quote(wallet))
    /\ UNCHANGED <<initialized, now, deposits_received, taken_out>>

(* ------------------------------------------------------------------ *)
(* instructions/admin_withdraw.rs, sweep_dust_after_end.rs             *)
(* ------------------------------------------------------------------ *)
\* Faulty variant: withdrawals stop once the recipient list is sealed.
admin_withdraw_until_sealed(signer, amount) ==
    IF ~(amount > 0) THEN Fail("InvalidConfig")
    ELSE IF signer # st.admin THEN Fail("UnauthorizedAdmin")
    ELSE IF st.sealed THEN Fail("RecipientsSealed")
    ELSE IF ~(vault >= amount) THEN Fail("InsufficientVaultBalance")
    ELSE Outcome("Ok", st, entries, vault - amount, <<>>)

admin_withdraw(signer, amount) ==
    IF ~(amount > 0) THEN Fail("InvalidConfig")
    ELSE IF signer # st.admin THEN Fail("UnauthorizedAdmin")
    ELSE IF ~(vault >= amount) THEN Fail("InsufficientVaultBalance")
    ELSE Outcome("Ok", st, entries, vault - amount, <<>>)

\* What the first listed recipient is owed at the current month (0 before the
\* start or with an empty list).
FirstOwed ==
    IF st.recipient_count > 0 /\ month_index_at(now, st.start_ts).ok
    THEN vested_amount(entries[1].monthly_amount, entries[1].final_amount,
                       month_index_at(now, st.start_ts).v) - entries[1].released_amount
    ELSE 0

\* Amounts tried: nothing, all but one token, the whole balance, one too many,
\* and all but what the first recipient is owed.
WithdrawAmounts == {a \in {0, vault - 1, vault, vault + 1, vault - FirstOwed} : a >= 0}

AdminWithdraw ==
    /\ initialized
    /\ \E signer \in Signers :
         \E amount \in IF signer = AdminKey THEN WithdrawAmounts ELSE {1} :
         /\ Commit(admin_withdraw(signer, amount))
         /\ taken_out' = taken_out + (vault - vault')
    /\ UNCHANGED <<initialized, now, deposits_received>>

DustSwept(admin, amount) == [name |-> "DustSwept", admin |-> admin, amount |-> amount]

\* An empty vault is reported without a transfer; otherwise the whole balance
\* goes to the admin.
sweep_transfer(amount) ==
    IF amount = 0 THEN Outcome("Ok", st, entries, vault, <<DustSwept(st.admin, 0)>>)
    ELSE Outcome("Ok", st, entries, vault - amount, <<DustSwept(st.admin, amount)>>)

\* Faulty variant: the sweep opens with the twelfth month, one month early.
sweep_checked_in_last_month(ended) ==
    IF ~ended.ok THEN Fail(ended.e)
    ELSE IF ~(now >= st.start_ts /\ month_index_at(now, st.start_ts).v = DURATION_MONTHS)
         THEN Fail("SweepBeforeEnd")
    ELSE IF \E i \in 1..MAX_RECIPIENTS :
               entries[i].revoked = 0
               /\ entries[i].released_amount # entries[i].allocation
         THEN Fail("SweepNotAllowedOutstanding")
    ELSE sweep_transfer(vault)

sweep_checked(ended) ==
    IF ~ended.ok THEN Fail(ended.e)
    ELSE IF ~ended.v THEN Fail("SweepBeforeEnd")
    ELSE IF \E i \in 1..MAX_RECIPIENTS :
               entries[i].revoked = 0
               /\ entries[i].released_amount # entries[i].allocation
         THEN Fail("SweepNotAllowedOutstanding")
    ELSE sweep_transfer(vault)

sweep_dust_after_end(signer) ==
    IF signer # st.admin THEN Fail("UnauthorizedAdmin")
    ELSE sweep_checked(is_after_vesting_end_at(now, st.start_ts))

SweepDustAfterEnd ==
    /\ initialized
    /\ \E signer \in Signers :
         /\ Commit(sweep_dust_after_end(signer))
         /\ taken_out' = taken_out + (vault - vault')
    /\ UNCHANGED <<initialized, now, deposits_received>>

Next ==
    \/ Tick
    \/ InitializeSchedule
    \/ AddRecipients
    \/ DepositTokens
    \/ SetDistributor
    \/ Pause
    \/ Unpause
    \/ RevokeRecipient
    \/ ReleaseToRecipient
    \/ BatchRelease
    \/ EmitVestingQuote
    \/ AdminWithdraw
    \/ SweepDustAfterEnd

Spec == Init /\ [][Next]_vars

(* ------------------------------------------------------------------ *)
(* utils/time.rs on its own: a schedule start and a clock that walks   *)
(* through the instants around each of the thirteen boundaries.        *)
(* ------------------------------------------------------------------ *)
\* Start timestamps tried: month ends that clamp (leap and common years, the
\* leap day itself, a century leap year), a year rollover at the last second of
\* a day, days that never clamp, the first valid timestamp, the starts of the
\* unit tests of time.rs.
StartSamples ==
    {ts(2024, 1, 31, 0), ts(2023, 1, 31, 0), ts(2024, 2, 29, 43200),
     ts(2023, 12, 31, 86399), ts(2023, 8, 30, 1), ts(2025, 5, 15, 3600),
     ts(1999, 11, 30, 0), ts(2027, 10, 31, 0), ts(2026, 4, 11, 0),
     ts(2020, 1, 1, 0), 1}

\* Clock values tried for a start: the second before the start, each boundary
\* with the second before and after it, and an instant ten years after the start.
Probes(start_ts) ==
    {start_ts - 1}
        \cup {boundary(start_ts, k) + d : k \in 0..DURATION_MONTHS, d \in {-1, 0, 1}}
        \cup {start_ts + 3653 * SECONDS_PER_DAY}

TimeInit ==
    /\ initialized = FALSE
    /\ \E start_ts \in StartSamples : st = [ZeroState EXCEPT !.start_ts = start_ts]
    /\ entries = [i \in 1..MAX_RECIPIENTS |-> DefaultEntry]
    /\ vault = 0
    /\ now = st.start_ts - 1
    /\ deposits_received = 0
    /\ taken_out = 0
    /\ released_events = 0

\* The clock moves to the next instant tried.
Advance ==
    /\ \E t \in Probes(st.start_ts) :
         /\ t > now
         /\ \A u \in Probes(st.start_ts) : u > now => t <= u
         /\ now' = t
    /\ UNCHANGED <<initialized, st, entries, vault, deposits_received, taken_out,
                   released_events>>

TimeNext == Advance

TimeSpec == TimeInit /\ [][TimeNext]_vars

(* ------------------------------------------------------------------ *)
(* add_recipients and the releases over a range of allocations: a      *)
(* schedule initialized with a sampled total_supply, split over one or *)
(* two recipients.                                                     *)
(* ------------------------------------------------------------------ *)
\* Supplies tried: below, at and around one and two dozens, the allocations of
\* the main model, a large prime-like value and 2^30 - 1.
AllocationSamples == {1, 11, 12, 13, 23, 24, 100, 119, 120, 1000003, 1073741823}

\* Input lists tried: the whole supply to one wallet, and a third of it to one
\* wallet with the rest to another.
SampleInputs ==
    {<<[wallet |-> WalletNames[1], allocation |-> st.total_supply]>>}
        \cup (IF st.total_supply \div 3 > 0
              THEN {<<[wallet |-> WalletNames[1], allocation |-> st.total_supply \div 3],
                      [wallet |-> WalletNames[2],
                       allocation |-> st.total_supply - st.total_supply \div 3]>>}
              ELSE {})

AllocationInit ==
    /\ initialized = TRUE
    /\ \E total_supply \in AllocationSamples :
         st = initialize_schedule(AdminKey, "dist1", StartTs, total_supply).st
    /\ entries = [i \in 1..MAX_RECIPIENTS |-> DefaultEntry]
    /\ vault = 0
    /\ now = StartTs - 1
    /\ deposits_received = 0
    /\ taken_out = 0
    /\ released_events = 0

AddSampled ==
    /\ \E inputs \in SampleInputs, seal \in BOOLEAN :
         Commit(add_recipients(AdminKey, inputs, seal))
    /\ UNCHANGED <<initialized, now, deposits_received, taken_out>>

AllocationNext ==
    \/ AddSampled
    \/ DepositTokens
    \/ Tick
    \/ ReleaseToRecipient
    \/ BatchRelease

AllocationSpec == AllocationInit /\ [][AllocationNext]_vars

(* ------------------------------------------------------------------ *)
(* add_recipients up to the capacity of the list: a roster of one more *)
(* recipient than the list holds, added in order, a few per call.      *)
(* ------------------------------------------------------------------ *)
RosterWallets ==
    <<"r01", "r02", "r03", "r04", "r05", "r06", "r07", "r08", "r09", "r10",
      "r11", "r12", "r13", "r14", "r15", "r16", "r17", "r18", "r19", "r20",
      "r21", "r22", "r23", "r24", "r25", "r26", "r27", "r28", "r29", "r30",
      "r31", "r32", "r33", "r34", "r35", "r36">>

\* The i-th recipient of the roster: allocation 2 at odd positions, 1 at even ones.
Roster(i) == [wallet |-> RosterWallets[i], allocation |-> 1 + (i % 2)]

RECURSIVE RosterSum(_)
RosterSum(n) == IF n = 0 THEN 0 ELSE Roster(n).allocation + RosterSum(n - 1)

\* The supply that the first MAX_RECIPIENTS recipients of the roster use up.
RosterSupply == RosterSum(MAX_RECIPIENTS)

\* The next k recipients of the roster after the first n.
RosterSlice(n, k) == [j \in 1..k |-> Roster(n + j)]

RosterInit ==
    /\ initialized = TRUE
    /\ st = initialize_schedule(AdminKey, "dist1", StartTs, RosterSupply).st
    /\ entries = [i \in 1..MAX_RECIPIENTS |-> DefaultEntry]
    /\ vault = 0
    /\ now = StartTs - 1
    /\ deposits_received = 0
    /\ taken_out = 0
    /\ released_events = 0

AddFromRoster ==
    /\ \E k \in 0..(MaxInputs + 1), seal \in BOOLEAN :
         /\ st.recipient_count + k <= Len(RosterWallets)
         /\ Commit(add_recipients(AdminKey, RosterSlice(st.recipient_count, k), seal))
    /\ UNCHANGED <<initialized, now, deposits_received, taken_out>>

RosterNext ==
    \/ AddFromRoster
    \/ DepositTokens
    \/ Tick

RosterSpec == RosterInit /\ [][RosterNext]_vars

(* ------------------------------------------------------------------ *)
(* The running schedule: sealed with two recipients and funded exactly *)
(* before the start, no deposit and no admin_withdraw afterwards; the  *)
(* clock keeps going and a paused schedule is unpaused again.          *)
(* ------------------------------------------------------------------ *)
LiveInit ==
    /\ initialized = TRUE
    /\ st = [initialize_schedule(AdminKey, "dist1", StartTs, 220).st
                EXCEPT !.recipient_count = 2, !.sealed = TRUE]
    /\ entries = [i \in 1..MAX_RECIPIENTS |->
                     IF i = 1 THEN new_entry([wallet |-> WalletNames[1], allocation |-> 100],
                                             100 \div 12, 100 % 12)
                     ELSE IF i = 2
                          THEN new_entry([wallet |-> WalletNames[2], allocation |-> 120],
                                         120 \div 12, 120 % 12)
                     ELSE DefaultEntry]
    /\ vault = 220
    /\ now = StartTs - 1
    /\ deposits_received = 220
    /\ taken_out = 0
    /\ released_events = 0

\* The stored distributor releases to the wallet's associated account.
Release(w) ==
    /\ initialized
    /\ Commit(release_to_recipient(st.distributor, w, Ata(w)))
    /\ UNCHANGED <<initialized, now, deposits_received, taken_out>>

ReleaseAny == \E w \in Wallets : Release(w)

LiveNext ==
    \/ Tick
    \/ Pause
    \/ Unpause
    \/ RevokeRecipient
    \/ SetDistributor
    \/ ReleaseAny
    \/ BatchRelease
    \/ SweepDustAfterEnd

LiveSpec == LiveInit /\ [][LiveNext]_vars /\ WF_vars(Tick) /\ WF_vars(Unpause)

(* ------------------------------------------------------------------ *)
(* Properties                                                          *)
(* ------------------------------------------------------------------ *)
RECURSIVE SumReleased(_, _)
SumReleased(es, n) ==
    IF n = 0 THEN 0 ELSE es[n].released_amount + SumReleased(es, n - 1)

Slots == 1..MAX_RECIPIENTS

AllAccounts == {Ata(w) : w \in WalletInputs} \cup {Stray(w) : w \in WalletInputs}

\* C1: after every successful operation, released_supply equals the sum of
\* released_amount over all recipient entries.
C1_ReleasedSupplyIsSum ==
    st.released_supply = SumReleased(entries, MAX_RECIPIENTS)

\* Two recipients have been paid, one of them by a catch-up of several months.
C1_Witness ==
    /\ st.released_supply = SumReleased(entries, MAX_RECIPIENTS)
    /\ \E i, j \in Slots :
         /\ i # j
         /\ entries[i].released_amount > entries[i].monthly_amount
         /\ entries[j].released_amount > 0

\* C2: once the schedule exists and now >= start_ts, every entry has
\* released_amount <= vested(monthly_amount, final_amount, month_index(now, start_ts))
\* <= allocation, and no release, batch or quote call returns MathOverflow.
C2_ReleasedWithinVested ==
    (initialized /\ now >= st.start_ts) =>
        /\ month_index_at(now, st.start_ts).ok
        /\ \A i \in Slots :
             /\ entries[i].released_amount
                    <= vested_amount(entries[i].monthly_amount, entries[i].final_amount,
                                     month_index_at(now, st.start_ts).v)
             /\ vested_amount(entries[i].monthly_amount, entries[i].final_amount,
                              month_index_at(now, st.start_ts).v)
                    <= entries[i].allocation
             /\ entries[i].released_amount
                    <= batch_vested(entries[i], month_index_at(now, st.start_ts).v)
             /\ entries[i].released_amount
                    <= quote_vested_amount(entries[i].monthly_amount, entries[i].final_amount,
                                           month_index_at(now, st.start_ts).v)
        /\ \A signer \in Signers, wallet \in WalletInputs, ata \in AllAccounts :
             release_to_recipient(signer, wallet, ata).res # "MathOverflow"
        /\ \A signer \in Signers, wallets \in BatchWallets :
             \A accounts \in BatchAccounts(wallets) :
                 batch_release(signer, wallets, accounts).res # "MathOverflow"
        /\ \A wallet \in WalletInputs : emit_vesting_quote(wallet).res # "MathOverflow"

\* A recipient paid up to the vested amount of a month before the last one, so
\* that the subtraction of the next call yields exactly zero.
C2_Witness ==
    /\ initialized /\ now >= st.start_ts
    /\ \E i \in Slots :
         /\ entries[i].released_amount > 0
         /\ entries[i].released_amount < entries[i].allocation
         /\ entries[i].released_amount
                = vested_amount(entries[i].monthly_amount, entries[i].final_amount,
                                month_index_at(now, st.start_ts).v)

\* C3: vault balance plus released_supply never exceeds total_supply, and
\* released_supply alone never does.
C3_NoOverDepositNoOverRelease ==
    /\ vault + st.released_supply <= st.total_supply
    /\ st.released_supply <= st.total_supply

\* A fully funded vault partly paid out: the sum is exactly total_supply.
C3_Witness ==
    /\ st.released_supply > 0
    /\ vault > 0
    /\ vault + st.released_supply = st.total_supply

\* C4: whenever released_supply > 0, vault balance plus released_supply equals the
\* total ever deposited through deposit_tokens.
C4_VaultPlusReleasedIsDeposits ==
    st.released_supply > 0 => vault + st.released_supply = deposits_received

\* C4 as the program has it: vault balance plus released_supply equals the total
\* deposited minus what admin_withdraw and sweep_dust_after_end took out; it equals
\* the total deposited as long as nothing was taken out.
C4_Conservation ==
    /\ vault + st.released_supply = deposits_received - taken_out
    /\ (st.released_supply > 0 /\ taken_out = 0)
           => vault + st.released_supply = deposits_received

\* Releases have been made and the admin has withdrawn from the vault.
C4_Witness ==
    /\ st.released_supply > 0
    /\ taken_out > 0
    /\ vault + st.released_supply < deposits_received

\* C5: the sum of allocation over all entries is <= total_supply, and it equals
\* total_supply if and only if the schedule is sealed.
C5_SumEqualsSupplyIffSealed ==
    initialized =>
        /\ SumAllocations(entries, MAX_RECIPIENTS) <= st.total_supply
        /\ (SumAllocations(entries, MAX_RECIPIENTS) = st.total_supply) <=> st.sealed

\* C5 as the program has it: the sum is <= total_supply and a sealed schedule has
\* the sum equal to total_supply; an unsealed one may reach equality too.
C5_SumWithinSupply ==
    initialized =>
        /\ SumAllocations(entries, MAX_RECIPIENTS) <= st.total_supply
        /\ st.sealed => SumAllocations(entries, MAX_RECIPIENTS) = st.total_supply

\* A schedule sealed over two recipients whose allocations add up to total_supply.
C5_Witness ==
    /\ initialized
    /\ st.sealed
    /\ st.recipient_count = 2
    /\ SumAllocations(entries, MAX_RECIPIENTS) = st.total_supply

\* The checks of batch_release that precede its funding gate, apart from the
\* signer, seal and pause checks.
BatchShapeOk(wallets, accounts) ==
    /\ Len(wallets) > 0
    /\ Len(wallets) <= MAX_BATCH_RELEASE
    /\ Len(accounts) = Len(wallets)

Unchanged(out) == out.st = st /\ out.entries = entries /\ out.vault = vault

OneShort ==
    /\ initialized /\ st.sealed /\ ~st.paused
    /\ st.released_supply = 0
    /\ vault = st.total_supply - 1

Gates(signer) ==
    /\ st.sealed
    /\ ~st.paused
    /\ now >= st.start_ts
    /\ signer = st.distributor

\* C8: a release_to_recipient or batch_release call succeeds, and so moves tokens
\* from the vault to a recipient, only when sealed, not paused, now >= start_ts
\* and signed by the distributor stored in the schedule state; a call made while
\* unsealed, before the start, while paused, or signed by the admin or by another
\* distributor than the stored one fails and leaves schedule state, entries and
\* vault unchanged.  Every step that pays out of the vault into released_supply
\* starts in a sealed, unpaused state at now >= start_ts.
C8_ReleaseGating ==
    /\ [](initialized =>
            /\ \A signer \in Signers, wallet \in WalletInputs, ata \in AllAccounts :
                 /\ release_to_recipient(signer, wallet, ata).res = "Ok" => Gates(signer)
                 /\ ~Gates(signer)
                        => /\ release_to_recipient(signer, wallet, ata).res # "Ok"
                           /\ Unchanged(release_to_recipient(signer, wallet, ata))
            /\ \A signer \in Signers, wallets \in BatchWallets :
                 \A accounts \in BatchAccounts(wallets) :
                     /\ batch_release(signer, wallets, accounts).res = "Ok" => Gates(signer)
                     /\ ~Gates(signer)
                            => /\ batch_release(signer, wallets, accounts).res # "Ok"
                               /\ Unchanged(batch_release(signer, wallets, accounts)))
    /\ [][st'.released_supply > st.released_supply
              => (st.sealed /\ ~st.paused /\ now >= st.start_ts)]_vars

\* The second distributor is the stored one: its release pays, the release
\* signed by the first distributor and the one signed by the admin are refused.
C8_Witness ==
    /\ initialized
    /\ st.distributor = "dist2"
    /\ release_to_recipient("dist2", WalletNames[1], Ata(WalletNames[1])).res = "Ok"
    /\ release_to_recipient("dist2", WalletNames[1], Ata(WalletNames[1])).vault < vault
    /\ release_to_recipient("dist1", WalletNames[1], Ata(WalletNames[1])).res
           = "UnauthorizedDistributor"
    /\ release_to_recipient(AdminKey, WalletNames[1], Ata(WalletNames[1])).res
           = "UnauthorizedDistributor"

\* The entry a release for the wallet pays: listed and not revoked.
Payable(i) == i # 0 /\ entries[i].revoked = 0

\* C9: when a release for a non-revoked recipient succeeds at
\* now >= boundary(start_ts, 12), through release_to_recipient or as an item of
\* batch_release, the recipient's released_amount equals its allocation afterwards.
C9_TerminalCompleteness ==
    (initialized /\ now >= boundary(st.start_ts, DURATION_MONTHS)) =>
        /\ \A w \in Wallets :
             (/\ Payable(FindEntry(entries, st.recipient_count, w))
              /\ release_to_recipient(st.distributor, w, Ata(w)).res = "Ok")
                 => release_to_recipient(st.distributor, w, Ata(w))
                        .entries[FindEntry(entries, st.recipient_count, w)].released_amount
                    = entries[FindEntry(entries, st.recipient_count, w)].allocation
        /\ \A wallets \in BatchWallets :
             batch_release(st.distributor, wallets,
                           [k \in 1..Len(wallets) |-> Ata(wallets[k])]).res = "Ok"
                 => \A k \in 1..Len(wallets) :
                        Payable(FindEntry(entries, st.recipient_count, wallets[k]))
                            => batch_release(st.distributor, wallets,
                                             [j \in 1..Len(wallets) |-> Ata(wallets[j])])
                                   .entries[FindEntry(entries, st.recipient_count, wallets[k])]
                                   .released_amount
                               = entries[FindEntry(entries, st.recipient_count, wallets[k])]
                                     .allocation

\* At the end boundary a recipient of 100 (monthly 8, remainder 4), paid in part
\* in an earlier month, is released to: the call pays the rest, remainder included.
C9_Witness ==
    /\ initialized /\ now >= boundary(st.start_ts, DURATION_MONTHS)
    /\ \E w \in Wallets :
         /\ Payable(FindEntry(entries, st.recipient_count, w))
         /\ entries[FindEntry(entries, st.recipient_count, w)].allocation = 100
         /\ entries[FindEntry(entries, st.recipient_count, w)].released_amount > 0
         /\ entries[FindEntry(entries, st.recipient_count, w)].released_amount < 100
         /\ release_to_recipient(st.distributor, w, Ata(w)).res = "Ok"
         /\ release_to_recipient(st.distributor, w, Ata(w))
                .entries[FindEntry(entries, st.recipient_count, w)].released_amount = 100

\* What a successful release_to_recipient for wallet w moves out of the vault.
Transferred(w) == vault - release_to_recipient(st.distributor, w, Ata(w)).vault

\* C10: a successful release for a non-revoked recipient transfers the vested
\* amount of the current month minus what was released before, whatever releases
\* were made or skipped earlier, and leaves released_amount at that vested
\* amount; so releasing at t1 and again at t2 transfers in total what releasing
\* at t2 alone does.  An allocation of 120 never released before month 7 gets 70
\* at month 7, and then 50 at month 12.
C10_CatchUpEquivalence ==
    initialized =>
        \A w \in Wallets :
            (/\ Payable(FindEntry(entries, st.recipient_count, w))
             /\ release_to_recipient(st.distributor, w, Ata(w)).res = "Ok")
                => /\ Transferred(w)
                          = vested_amount(
                                entries[FindEntry(entries, st.recipient_count, w)].monthly_amount,
                                entries[FindEntry(entries, st.recipient_count, w)].final_amount,
                                month_index_at(now, st.start_ts).v)
                            - entries[FindEntry(entries, st.recipient_count, w)].released_amount
                   /\ release_to_recipient(st.distributor, w, Ata(w))
                          .entries[FindEntry(entries, st.recipient_count, w)].released_amount
                          = entries[FindEntry(entries, st.recipient_count, w)].released_amount
                            + Transferred(w)
                   /\ (/\ entries[FindEntry(entries, st.recipient_count, w)].allocation = 120
                       /\ entries[FindEntry(entries, st.recipient_count, w)].released_amount = 0
                       /\ month_index_at(now, st.start_ts).v = 7)
                          => Transferred(w) = 70
                   /\ (/\ entries[FindEntry(entries, st.recipient_count, w)].allocation = 120
                       /\ entries[FindEntry(entries, st.recipient_count, w)].released_amount = 70
                       /\ month_index_at(now, st.start_ts).v = 12)
                          => Transferred(w) = 50

\* Month 12, an allocation of 120 first released to at month 7: the call pays 50.
C10_Witness ==
    /\ initialized
    /\ month_index_at(now, st.start_ts).ok
    /\ month_index_at(now, st.start_ts).v = 12
    /\ \E w \in Wallets :
         /\ Payable(FindEntry(entries, st.recipient_count, w))
         /\ entries[FindEntry(entries, st.recipient_count, w)].allocation = 120
         /\ entries[FindEntry(entries, st.recipient_count, w)].released_amount = 70
         /\ release_to_recipient(st.distributor, w, Ata(w)).res = "Ok"
         /\ Transferred(w) = 50

\* A call that succeeds without any effect: nothing transferred, nothing changed,
\* no event.
NoOp(out) == out.res = "Ok" /\ Unchanged(out) /\ out.events = <<>>

\* The wallet's entry is paid up to the vested amount of the current month.
PaidUp(w) ==
    /\ FindEntry(entries, st.recipient_count, w) # 0
    /\ entries[FindEntry(entries, st.recipient_count, w)].released_amount > 0
    /\ entries[FindEntry(entries, st.recipient_count, w)].released_amount
           = vested_amount(entries[FindEntry(entries, st.recipient_count, w)].monthly_amount,
                           entries[FindEntry(entries, st.recipient_count, w)].final_amount,
                           month_index_at(now, st.start_ts).v)

\* A further release for the wallet, alone, as a batch of one and as a batch
\* naming the wallet twice, is a successful no-op.
Idempotent(w) ==
    /\ NoOp(release_to_recipient(st.distributor, w, Ata(w)))
    /\ NoOp(batch_release(st.distributor, <<w>>, <<Ata(w)>>))
    /\ NoOp(batch_release(st.distributor, <<w, w>>, <<Ata(w), Ata(w)>>))

\* C11: once a release for a wallet has succeeded at month k, every further
\* release_to_recipient call and batch_release item for that wallet made under
\* the release conditions (sealed, not paused, stored distributor) while the
\* month index is still k succeeds, transfers nothing, changes nothing and emits
\* no event.  A paying step leaves the schedule under the release conditions
\* with the wallet paid up to the vested amount of the month; in every such
\* state a further release for the wallet is a successful no-op, and in a
\* successful batch with other wallets the item of the paid-up wallet leaves its
\* entry alone and emits no event.
C11_IdempotentWithinMonth ==
    /\ [][st'.released_supply > st.released_supply =>
            /\ st'.sealed /\ ~st'.paused /\ now' >= st'.start_ts
            /\ \A w \in Wallets :
                 (/\ FindEntry(entries, st.recipient_count, w) # 0
                  /\ entries'[FindEntry(entries, st.recipient_count, w)].released_amount
                         > entries[FindEntry(entries, st.recipient_count, w)].released_amount)
                     => PaidUp(w)']_vars
    /\ []((initialized /\ st.sealed /\ ~st.paused /\ now >= st.start_ts) =>
            \A w \in Wallets :
                PaidUp(w) =>
                    /\ Idempotent(w)
                    /\ \A wallets \in BatchWallets :
                         LET out == batch_release(st.distributor, wallets,
                                                  [k \in 1..Len(wallets) |-> Ata(wallets[k])])
                         IN  out.res = "Ok" =>
                                 /\ out.entries[FindEntry(entries, st.recipient_count, w)]
                                        = entries[FindEntry(entries, st.recipient_count, w)]
                                 /\ \A e \in 1..Len(out.events) : out.events[e].wallet # w)

\* Month 3: a recipient of 120 was paid its 30 and is not revoked; the repeated
\* release and the repeated batch item succeed and move nothing.
C11_Witness ==
    /\ initialized /\ st.sealed /\ ~st.paused
    /\ month_index_at(now, st.start_ts).ok
    /\ month_index_at(now, st.start_ts).v = 3
    /\ \E w \in Wallets :
         /\ PaidUp(w)
         /\ entries[FindEntry(entries, st.recipient_count, w)].revoked = 0
         /\ entries[FindEntry(entries, st.recipient_count, w)].released_amount = 30
         /\ vault > 0
         /\ Idempotent(w)

\* What the entry of a listed wallet has vested at the current month.
VestedNow(w) ==
    vested_amount(entries[FindEntry(entries, st.recipient_count, w)].monthly_amount,
                  entries[FindEntry(entries, st.recipient_count, w)].final_amount,
                  month_index_at(now, st.start_ts).v)

\* The release conditions hold and the wallet's release succeeds and transfers
\* the vested amount of the current month minus released_amount.
PaysAccrued(w) ==
    /\ release_to_recipient(st.distributor, w, Ata(w)).res = "Ok"
    /\ Transferred(w)
           = VestedNow(w) - entries[FindEntry(entries, st.recipient_count, w)].released_amount

\* C12: pause blocks transfers but not accrual.  While paused, every
\* release_to_recipient and batch_release call fails and changes nothing, with
\* SchedulePaused in the Paused state (sealed and paused); the quote of a listed
\* wallet still reports the vested amount of the current month.  Pausing and
\* unpausing change the paused flag and nothing else, and right after an unpause
\* a successful release of a listed, non-revoked wallet transfers
\* vested(month) - released_amount, the amount the month index alone determines:
\* an allocation of 120 paid 30 at month 3 gets 40 at month 7.
C12_PauseBlocksTransfersNotAccrual ==
    /\ []((initialized /\ st.paused) =>
            /\ \A signer \in Signers, wallet \in WalletInputs, ata \in AllAccounts :
                 LET out == release_to_recipient(signer, wallet, ata)
                 IN  /\ out.res # "Ok" /\ Unchanged(out) /\ out.events = <<>>
                     /\ st.sealed => out.res = "SchedulePaused"
            /\ \A signer \in Signers, wallets \in BatchWallets :
                 \A accounts \in BatchAccounts(wallets) :
                     LET out == batch_release(signer, wallets, accounts)
                     IN  /\ out.res # "Ok" /\ Unchanged(out) /\ out.events = <<>>
                         /\ st.sealed => out.res = "SchedulePaused"
            /\ \A w \in Wallets :
                 (FindEntry(entries, st.recipient_count, w) # 0 /\ now >= st.start_ts)
                     => /\ emit_vesting_quote(w).res = "Ok"
                        /\ emit_vesting_quote(w).events[1].vested_amount = VestedNow(w))
    /\ [][st'.paused # st.paused =>
            /\ st' = [st EXCEPT !.paused = ~st.paused]
            /\ entries' = entries /\ vault' = vault /\ now' = now]_vars
    /\ [][(st.paused /\ ~st'.paused /\ st'.sealed /\ now' >= st'.start_ts
              /\ (st'.released_supply > 0 \/ vault' = st'.total_supply)) =>
            \A w \in Wallets :
                (/\ Payable(FindEntry(entries, st.recipient_count, w))
                 /\ vault >= VestedNow(w)
                               - entries[FindEntry(entries, st.recipient_count, w)].released_amount)
                    => /\ PaysAccrued(w)'
                       /\ (/\ entries[FindEntry(entries, st.recipient_count, w)].allocation = 120
                            /\ entries[FindEntry(entries, st.recipient_count, w)].released_amount = 30
                            /\ month_index_at(now, st.start_ts).v = 7)
                              => Transferred(w)' = 40]_vars

\* Paused at month 7 with an allocation of 120 paid 30 at month 3: the release is
\* refused with SchedulePaused, the quote reports 70 vested, the admin can unpause.
C12_Witness ==
    /\ initialized /\ st.sealed /\ st.paused
    /\ month_index_at(now, st.start_ts).ok
    /\ month_index_at(now, st.start_ts).v = 7
    /\ unpause(st.admin).res = "Ok"
    /\ \E w \in Wallets :
         /\ Payable(FindEntry(entries, st.recipient_count, w))
         /\ entries[FindEntry(entries, st.recipient_count, w)].allocation = 120
         /\ entries[FindEntry(entries, st.recipient_count, w)].released_amount = 30
         /\ vault >= 40
         /\ release_to_recipient(st.distributor, w, Ata(w)).res = "SchedulePaused"
         /\ emit_vesting_quote(w).events[1].vested_amount = 70

\* The batch loop as far as it gets before the transaction ends: on a failed
\* item it carries the effects of the items processed before it.
LoopReached(wallets, accounts) ==
    batch_loop(wallets, accounts, month_index_at(now, st.start_ts).v, 1,
               Outcome("Ok", st, entries, vault, <<>>))

\* The batch gets to its loop, pays an earlier item and then fails with err.
FailsAfterPaying(wallets, accounts, err) ==
    /\ LoopReached(wallets, accounts).res = err
    /\ LoopReached(wallets, accounts).vault < vault
    /\ LoopReached(wallets, accounts).st.released_supply > st.released_supply
    /\ batch_release(st.distributor, wallets, accounts).res = err

GoodAccounts(wallets) == [k \in 1..Len(wallets) |-> Ata(wallets[k])]

\* What the entry in slot i is owed at the current month.
Owed(i) ==
    batch_vested(entries[i], month_index_at(now, st.start_ts).v) - entries[i].released_amount

\* The slots a batch over the wallet list pays: named by an item, not revoked,
\* owed something.
PaidSlots(wallets) ==
    {i \in {FindEntry(entries, MAX_RECIPIENTS, wallets[k]) : k \in 1..Len(wallets)} :
        i # 0 /\ entries[i].revoked = 0 /\ Owed(i) > 0}

RECURSIVE SumOwed(_)
SumOwed(slots) ==
    IF slots = {} THEN 0
    ELSE LET i == CHOOSE j \in slots : TRUE IN Owed(i) + SumOwed(slots \ {i})

Listing(e) ==
    [wallet |-> e.wallet, allocation |-> e.allocation,
     monthly_amount |-> e.monthly_amount, final_amount |-> e.final_amount]

\* Input lists offered to a sealed schedule: none, each single input of the model,
\* a recipient never offered before.
SealedInputs ==
    SeqsUpTo(RecipientInputs \cup {[wallet |-> Outsider, allocation |-> 100]}, 1)

\* C15: sealing is one-way and freezes the list.  A step from a sealed state
\* leads to a sealed state with the same recipient_count and, slot by slot, the
\* same wallet, allocation, monthly_amount and final_amount; in a sealed state
\* every add_recipients call fails and changes nothing, with RecipientsSealed
\* when signed by the admin.  Before sealing too, a step never lowers
\* recipient_count and never changes the wallet, allocation, monthly_amount or
\* final_amount of an existing entry (no reordering, deletion or re-allocation).
C15_SealedListFrozen ==
    /\ [][(initialized /\ st.sealed) =>
            /\ st'.sealed
            /\ st'.recipient_count = st.recipient_count
            /\ \A i \in Slots : Listing(entries'[i]) = Listing(entries[i])]_vars
    /\ [][initialized =>
            /\ st'.recipient_count >= st.recipient_count
            /\ \A i \in 1..st.recipient_count :
                 Listing(entries'[i]) = Listing(entries[i])]_vars
    /\ []((initialized /\ st.sealed) =>
            \A signer \in Signers, inputs \in SealedInputs, seal \in BOOLEAN :
                LET out == add_recipients(signer, inputs, seal)
                IN  /\ out.res # "Ok" /\ Unchanged(out)
                    /\ signer = st.admin => out.res = "RecipientsSealed")

\* A sealed list of two, partly paid, one recipient revoked: the admin's
\* add_recipients naming a new wallet is refused with RecipientsSealed.
C15_Witness ==
    /\ initialized /\ st.sealed
    /\ st.recipient_count = 2
    /\ st.released_supply > 0
    /\ \E i \in Slots : entries[i].revoked # 0
    /\ add_recipients(st.admin, <<[wallet |-> Outsider, allocation |-> 100]>>, FALSE).res
           = "RecipientsSealed"
    /\ add_recipients(st.admin, <<>>, TRUE).res = "RecipientsSealed"

\* C16: from one state to the next, and so between any two states of an
\* execution, released_supply does not decrease, no entry's released_amount
\* decreases, and an entry that is revoked stays revoked.
C16_Monotonicity ==
    [][initialized =>
          /\ st'.released_supply >= st.released_supply
          /\ \A i \in Slots :
               /\ entries'[i].released_amount >= entries[i].released_amount
               /\ entries[i].revoked # 0 => entries'[i].revoked # 0]_vars

\* A recipient paid in part and then revoked, another paid later than that, and
\* the admin revoking the revoked one again is refused.
C16_Witness ==
    /\ initialized
    /\ \E i, j \in Slots :
         /\ i # j
         /\ entries[i].revoked # 0
         /\ entries[i].released_amount > 0
         /\ entries[i].released_amount < entries[i].allocation
         /\ entries[j].released_amount > entries[j].monthly_amount
         /\ st.released_supply = entries[i].released_amount + entries[j].released_amount
         /\ revoke_recipient(st.admin, entries[i].wallet).res = "RecipientRevoked"

\* Signers other than the admin of the schedule: the distributors, the recipient
\* wallets and an outsider.
NonAdmins == (Signers \cup Wallets \cup {Outsider}) \ {st.admin}

\* A call that fails and leaves schedule state, entries and vault as they were.
Refused(out) == out.res # "Ok" /\ Unchanged(out) /\ out.events = <<>>

\* C17: each of add_recipients, deposit_tokens, set_distributor, pause, unpause,
\* revoke_recipient, admin_withdraw and sweep_dust_after_end fails, and changes
\* nothing, whenever the signer is not the admin recorded by initialize_schedule
\* (the stored distributor included), whatever its other arguments; with a
\* positive amount and a non-zero key the error is UnauthorizedAdmin.  The admin
\* key is the initializer's and no step changes it.
C17_AdminAuthority ==
    /\ [](initialized =>
            /\ st.admin = AdminKey
            /\ \A signer \in NonAdmins :
                 /\ \A inputs \in SeqsUpTo(RecipientInputs, 1), seal \in BOOLEAN :
                      /\ Refused(add_recipients(signer, inputs, seal))
                      /\ add_recipients(signer, inputs, seal).res = "UnauthorizedAdmin"
                 /\ \A amount \in {0, 1, vault, st.total_supply} :
                      /\ Refused(deposit_tokens(signer, amount))
                      /\ Refused(admin_withdraw(signer, amount))
                      /\ amount > 0 =>
                             /\ deposit_tokens(signer, amount).res = "UnauthorizedAdmin"
                             /\ admin_withdraw(signer, amount).res = "UnauthorizedAdmin"
                 /\ \A d \in DistributorInputs \cup {signer} :
                      /\ Refused(set_distributor(signer, d))
                      /\ d # ZeroKey => set_distributor(signer, d).res = "UnauthorizedAdmin"
                 /\ Refused(pause(signer))
                 /\ pause(signer).res = "UnauthorizedAdmin"
                 /\ Refused(unpause(signer))
                 /\ unpause(signer).res = "UnauthorizedAdmin"
                 /\ \A wallet \in WalletInputs :
                      /\ Refused(revoke_recipient(signer, wallet))
                      /\ revoke_recipient(signer, wallet).res = "UnauthorizedAdmin"
                 /\ Refused(sweep_dust_after_end(signer))
                 /\ sweep_dust_after_end(signer).res = "UnauthorizedAdmin")
    /\ [][initialized => st'.admin = st.admin]_vars

\* Before the start, unsealed, one recipient listed, tokens in the vault: the
\* admin's add, deposit, set_distributor, pause, revoke and withdraw would all
\* succeed, and the same calls signed by the stored distributor are refused.
C17_Witness ==
    /\ initialized /\ ~st.sealed /\ ~st.paused /\ now < st.start_ts
    /\ st.recipient_count = 1
    /\ vault > 0 /\ vault < st.total_supply
    /\ st.distributor = "dist2"
    /\ add_recipients(st.admin, <<>>, FALSE).res = "Ok"
    /\ add_recipients(st.distributor, <<>>, FALSE).res = "UnauthorizedAdmin"
    /\ deposit_tokens(st.admin, 1).res = "Ok"
    /\ deposit_tokens(st.distributor, 1).res = "UnauthorizedAdmin"
    /\ set_distributor(st.admin, "dist1").res = "Ok"
    /\ set_distributor(st.distributor, "dist1").res = "UnauthorizedAdmin"
    /\ pause(st.admin).res = "Ok"
    /\ pause(st.distributor).res = "UnauthorizedAdmin"
    /\ revoke_recipient(st.admin, entries[1].wallet).res = "Ok"
    /\ revoke_recipient(st.distributor, entries[1].wallet).res = "UnauthorizedAdmin"
    /\ admin_withdraw(st.admin, 1).res = "Ok"
    /\ admin_withdraw(st.distributor, 1).res = "UnauthorizedAdmin"
    /\ unpause(st.distributor).res = "UnauthorizedAdmin"
    /\ sweep_dust_after_end(st.distributor).res = "UnauthorizedAdmin"

\* The keys a distributor may not be.
ForbiddenDistributors ==
    {st.admin, ScheduleStateKey, VaultKey, RecipientsKey, ProgramId, ZeroKey}

\* C18: in every state after initialize_schedule, whatever set_distributor calls
\* were made, the stored distributor is none of the admin, the schedule-state
\* address, the vault address, the recipients address, the program id and the
\* all-zero key; a set_distributor call by the admin naming one of them fails
\* and leaves the distributor (and everything else) unchanged, and so does an
\* initialize_schedule call naming the zero key, its own signer or one of the
\* four addresses.
C18_DistributorInvariant ==
    /\ initialized =>
         /\ st.distributor \notin ForbiddenDistributors
         /\ \A d \in ForbiddenDistributors :
              /\ Refused(set_distributor(st.admin, d))
              /\ set_distributor(st.admin, d).st.distributor = st.distributor
              /\ set_distributor(st.admin, d).res
                     = IF d = ZeroKey THEN "InvalidPubkey" ELSE "InvalidConfig"
    /\ \A d \in {AdminKey, ScheduleStateKey, VaultKey, RecipientsKey, ProgramId, ZeroKey} :
         \A start_ts \in StartInputs, total_supply \in SupplyInputs :
             /\ Refused(initialize_schedule(AdminKey, d, start_ts, total_supply))
             /\ (start_ts > 0 /\ total_supply > 0)
                    => initialize_schedule(AdminKey, d, start_ts, total_supply).res
                           = IF d = ZeroKey THEN "InvalidPubkey" ELSE "InvalidConfig"

\* The distributor was replaced by the admin (dist2 is stored), and the admin
\* may set dist1 back but none of the forbidden keys.
C18_Witness ==
    /\ initialized
    /\ st.distributor = "dist2"
    /\ st.released_supply > 0
    /\ set_distributor(st.admin, "dist1").res = "Ok"
    /\ set_distributor(st.admin, "dist1").st.distributor = "dist1"
    /\ set_distributor(st.admin, VaultKey).res = "InvalidConfig"
    /\ set_distributor(st.admin, st.admin).res = "InvalidConfig"
    /\ set_distributor(st.admin, ZeroKey).res = "InvalidPubkey"

\* C19: boundaries are inclusive on the left.  For the start S of the schedule,
\* month_index(boundary(S, k), S) = k + 1 for k in 0..11,
\* month_index(boundary(S, k) - 1, S) = k for k in 1..11,
\* month_index(boundary(S, 12) - 1, S) = 12 and month_index(boundary(S, 12), S) = 12,
\* and month_index fails with BeforeStart exactly when now < S; the clock of the
\* state gets the index of the last boundary it has reached.
C19_BoundaryInclusivity ==
    /\ st.start_ts > 0
    /\ \A k \in 0..11 :
         month_index(boundary(st.start_ts, k), st.start_ts) = Ok(k + 1)
    /\ \A k \in 1..11 :
         month_index(boundary(st.start_ts, k) - 1, st.start_ts) = Ok(k)
    /\ month_index(boundary(st.start_ts, 12) - 1, st.start_ts) = Ok(12)
    /\ month_index(boundary(st.start_ts, 12), st.start_ts) = Ok(12)
    /\ boundary(st.start_ts, 0) = st.start_ts
    /\ now < st.start_ts <=> month_index(now, st.start_ts) = Err("BeforeStart")
    /\ \A k \in 0..12 :
         (/\ boundary(st.start_ts, k) <= now
          /\ k < 12 => now < boundary(st.start_ts, k + 1))
             => month_index(now, st.start_ts) = Ok(Min(k + 1, 12))

\* Start 2024-02-29T12:00:00Z, clock one second before the sixth boundary
\* (2024-08-29T11:59:59Z): the month index is still 6.
C19_Witness ==
    /\ st.start_ts = 1709208000
    /\ now = boundary(st.start_ts, 6) - 1
    /\ now = 1724932799
    /\ month_index(now, st.start_ts) = Ok(6)
    /\ month_index(now + 1, st.start_ts) = Ok(7)

\* The Gregorian calendar: the number of days of a month.
CalendarDays(y, m) ==
    IF m = 2
    THEN (IF (y % 4 = 0 /\ y % 100 # 0) \/ y % 400 = 0 THEN 29 ELSE 28)
    ELSE IF m \in {4, 6, 9, 11} THEN 30 ELSE 31

\* The calendar date and second of day that lie k months after the date dt: year
\* and month advanced by k, the day of dt clamped to the length of that month.
MonthsLater(dt, k) ==
    LET y == (dt.year * 12 + (dt.month - 1) + k) \div 12
        m == ((dt.year * 12 + (dt.month - 1) + k) % 12) + 1
    IN  [year |-> y, month |-> m, day |-> Min(dt.day, CalendarDays(y, m)), sod |-> dt.sod]

\* C20: day clamping without drift.  For the start S of the schedule, with
\* calendar date (y, m, d) and second of day sod, every boundary(S, k), k in
\* 0..12, is the timestamp of (y, m) advanced by k months, day min(d, days of
\* that month), the same second of day: the day is taken from the original d at
\* every k, so a clamp in one month does not carry into the next, and the
\* boundaries are strictly increasing.  For the start 2024-01-31T00:00:00Z the
\* boundaries 1..4 are 2024-02-29, 2024-03-31, 2024-04-30 and 2024-05-31 at
\* 00:00:00Z, and month_index is 2 at 2024-02-29T00:00:00Z and 1 one second earlier.
C20_DayClampingNoDrift ==
    /\ datetime_from_unix(st.start_ts).ok
    /\ \A k \in 0..DURATION_MONTHS :
         /\ boundary_ts_from_start(datetime_from_unix(st.start_ts).v, k).ok
         /\ datetime_from_unix(boundary(st.start_ts, k))
                = Ok(MonthsLater(datetime_from_unix(st.start_ts).v, k))
         /\ k > 0 => boundary(st.start_ts, k) > boundary(st.start_ts, k - 1)
    /\ \A k \in 0..DURATION_MONTHS :
         now = boundary(st.start_ts, k)
             => datetime_from_unix(now).v.day
                    = Min(datetime_from_unix(st.start_ts).v.day,
                          CalendarDays(datetime_from_unix(now).v.year,
                                       datetime_from_unix(now).v.month))
    /\ st.start_ts = 1706659200 =>
         /\ datetime_from_unix(st.start_ts) = Ok([year |-> 2024, month |-> 1, day |-> 31, sod |-> 0])
         /\ boundary(st.start_ts, 1) = 1709164800
         /\ boundary(st.start_ts, 2) = 1711843200
         /\ boundary(st.start_ts, 3) = 1714435200
         /\ boundary(st.start_ts, 4) = 1717113600
         /\ boundary(st.start_ts, 12) = 1738281600
         /\ month_index(1709164800, st.start_ts) = Ok(2)
         /\ month_index(1709164799, st.start_ts) = Ok(1)

\* Start 2024-01-31T00:00:00Z, clock at the second boundary: the first boundary
\* was clamped to 2024-02-29 and this one is 2024-03-31, day 31 again.
C20_Witness ==
    /\ st.start_ts = 1706659200
    /\ now = 1711843200
    /\ now = boundary(st.start_ts, 2)
    /\ datetime_from_unix(boundary(st.start_ts, 1)).v.day = 29
    /\ datetime_from_unix(now).v = [year |-> 2024, month |-> 3, day |-> 31, sod |-> 0]
    /\ month_index(now, st.start_ts) = Ok(3)

\* C21: every entry written by add_recipients has
\* monthly_amount = floor(allocation / 12),
\* final_amount = monthly_amount + (allocation mod 12) and
\* 11 * monthly_amount + final_amount = allocation; vested at month 12 is the
\* allocation exactly and vested at any month index is at most the allocation,
\* so it fits the 64 bits the allocation fits; an allocation of 100 has monthly 8,
\* final 12 and vested 100 at month 12.  No step changes the allocation or the
\* derived fields of a listed entry.
C21_DerivedAmounts ==
    /\ [](\A i \in 1..st.recipient_count :
            /\ entries[i].allocation >= 1
            /\ entries[i].monthly_amount = entries[i].allocation \div 12
            /\ entries[i].final_amount
                   = entries[i].monthly_amount + (entries[i].allocation % 12)
            /\ 11 * entries[i].monthly_amount + entries[i].final_amount
                   = entries[i].allocation
            /\ vested_amount(entries[i].monthly_amount, entries[i].final_amount, 12)
                   = entries[i].allocation
            /\ batch_vested(entries[i], 12) = entries[i].allocation
            /\ quote_vested_amount(entries[i].monthly_amount, entries[i].final_amount, 12)
                   = entries[i].allocation
            /\ \A m \in 0..13 \cup {255} :
                 /\ vested_amount(entries[i].monthly_amount, entries[i].final_amount, m)
                        <= entries[i].allocation
                 /\ vested_amount(entries[i].monthly_amount, entries[i].final_amount, m) >= 0
            /\ entries[i].allocation = 100 =>
                   /\ entries[i].monthly_amount = 8
                   /\ entries[i].final_amount = 12
                   /\ vested_amount(8, 12, 12) = 100)
    /\ [][\A i \in 1..st.recipient_count :
            /\ entries'[i].allocation = entries[i].allocation
            /\ entries'[i].monthly_amount = entries[i].monthly_amount
            /\ entries'[i].final_amount = entries[i].final_amount]_vars

\* At the end of the schedule an allocation of 100 (monthly 8, final 12), never
\* paid before, is released to: released_amount becomes 100.
C21_Witness ==
    /\ st.sealed
    /\ month_index_at(now, st.start_ts).ok
    /\ month_index_at(now, st.start_ts).v = 12
    /\ \E i \in 1..st.recipient_count :
         /\ entries[i].allocation = 100
         /\ entries[i].monthly_amount = 8
         /\ entries[i].final_amount = 12
         /\ entries[i].released_amount = 0
         /\ release_to_recipient(st.distributor, entries[i].wallet,
                                 Ata(entries[i].wallet)).entries[i].released_amount = 100

\* An add_recipients call by the admin is refused, with the given error while
\* the list is not sealed (a sealed list answers RecipientsSealed).
RefusedWith(inputs, err) ==
    \A seal \in BOOLEAN :
        /\ Refused(add_recipients(st.admin, inputs, seal))
        /\ add_recipients(st.admin, inputs, seal).res
               = IF st.sealed THEN "RecipientsSealed" ELSE err

\* C22: recipient_count <= 35; the first recipient_count entries have pairwise
\* distinct non-zero wallets and allocation > 0 and are the recipients supplied,
\* in the order supplied, the slots after them are untouched; an add_recipients
\* call with a zero wallet, a zero allocation, a wallet already listed or
\* repeated in the call, an entry beyond the 35th, or an allocation sum above
\* total_supply fails as a whole, also when valid inputs precede the bad one, and
\* leaves recipient_count, the entries and sealed unchanged.
C22_RecipientListValidity ==
    LET n == st.recipient_count
    IN  /\ n <= 35 /\ n <= MAX_RECIPIENTS
        /\ \A i \in 1..n :
             /\ entries[i].wallet # ZeroKey
             /\ entries[i].allocation > 0
             /\ entries[i].wallet = Roster(i).wallet
             /\ entries[i].allocation = Roster(i).allocation
             /\ \A j \in 1..n : i # j => entries[i].wallet # entries[j].wallet
        /\ \A i \in (n + 1)..MAX_RECIPIENTS : entries[i] = DefaultEntry
        /\ SumAllocations(entries, MAX_RECIPIENTS) <= st.total_supply
        /\ RefusedWith(<<[wallet |-> ZeroKey, allocation |-> 1]>>, "InvalidPubkey")
        /\ RefusedWith(<<[wallet |-> Roster(n + 1).wallet, allocation |-> 0]>>,
                       "InvalidAllocation")
        /\ n + 1 < MAX_RECIPIENTS =>
               /\ RefusedWith(<<Roster(n + 1), [wallet |-> ZeroKey, allocation |-> 1]>>,
                              "InvalidPubkey")
               /\ RefusedWith(<<Roster(n + 1), [wallet |-> Roster(n + 2).wallet,
                                                allocation |-> 0]>>,
                              "InvalidAllocation")
               /\ RefusedWith(<<Roster(n + 1), Roster(n + 1)>>, "DuplicateRecipient")
        /\ n + 2 < MAX_RECIPIENTS =>
               RefusedWith(<<Roster(n + 1), Roster(n + 2), Roster(n + 1)>>,
                           "DuplicateRecipient")
        /\ (1 <= n /\ n < MAX_RECIPIENTS) =>
               RefusedWith(<<Roster(1)>>, "DuplicateRecipient")
        /\ (1 <= n /\ n + 1 < MAX_RECIPIENTS) =>
               RefusedWith(<<Roster(n + 1), Roster(n)>>, "DuplicateRecipient")
        /\ n < MAX_RECIPIENTS =>
               /\ RefusedWith(<<[wallet |-> Roster(n + 1).wallet,
                                 allocation |-> st.total_supply
                                                - SumAllocations(entries, n) + 1]>>,
                              "AllocationSumExceedsTotalSupply")
               /\ RefusedWith(RosterSlice(n, MAX_RECIPIENTS + 1 - n), "RecipientListFull")
        /\ n = MAX_RECIPIENTS =>
               /\ RefusedWith(<<Roster(MAX_RECIPIENTS + 1)>>, "RecipientListFull")
               /\ RefusedWith(<<Roster(1)>>, "RecipientListFull")

\* Thirty-four recipients listed, not sealed: one more is accepted, two more are
\* refused with RecipientListFull, and so is the last one named twice.
C22_Witness ==
    /\ st.recipient_count = MAX_RECIPIENTS - 1
    /\ ~st.sealed
    /\ add_recipients(st.admin, RosterSlice(st.recipient_count, 1), FALSE).res = "Ok"
    /\ add_recipients(st.admin, RosterSlice(st.recipient_count, 1), FALSE)
           .st.recipient_count = 35
    /\ add_recipients(st.admin, RosterSlice(st.recipient_count, 2), FALSE).res
           = "RecipientListFull"
    /\ add_recipients(st.admin, <<Roster(35), Roster(35)>>, FALSE).res = "RecipientListFull"
    /\ add_recipients(st.admin, <<Roster(1)>>, FALSE).res = "DuplicateRecipient"

\* Amounts a deposit is tried with: nothing, one token, what is missing to full
\* funding and one less and one more, the whole supply.
DepositProbes ==
    {a \in {0, 1, st.total_supply - vault - 1, st.total_supply - vault,
            st.total_supply - vault + 1, st.total_supply} : a >= 0}

\* C23: deposit_tokens(amount) succeeds exactly when the signer is the admin,
\* amount > 0, now < start_ts and vault + amount <= total_supply; a successful
\* deposit raises the vault by exactly amount and leaves the schedule state and
\* the entries alone; a failing one changes nothing; an admin deposit with
\* amount > 0 at now >= start_ts fails with DepositAfterStart, and one before
\* the start that would push the vault above total_supply fails with
\* OverDeposit.  Every step that raises the vault is such a deposit.
C23_DepositRules ==
    /\ [](initialized =>
            \A signer \in Signers, amount \in DepositProbes :
                LET out == deposit_tokens(signer, amount)
                IN  /\ out.res = "Ok"
                           <=> (/\ signer = st.admin /\ amount > 0
                                /\ now < st.start_ts
                                /\ vault + amount <= st.total_supply)
                    /\ out.res = "Ok" =>
                           /\ out.vault = vault + amount
                           /\ out.st = st /\ out.entries = entries
                    /\ out.res # "Ok" => Refused(out)
                    /\ (signer = st.admin /\ amount > 0 /\ now >= st.start_ts)
                           => out.res = "DepositAfterStart"
                    /\ (signer = st.admin /\ amount > 0 /\ now < st.start_ts
                           /\ vault + amount > st.total_supply)
                           => out.res = "OverDeposit")
    /\ [][(initialized /\ vault' > vault) =>
            /\ now < st.start_ts
            /\ vault' <= st.total_supply
            /\ st' = st /\ entries' = entries
            /\ deposits_received' - deposits_received = vault' - vault]_vars

\* Before the start with the vault one token short after an earlier deposit: the
\* admin's deposit of 1 fills the vault, a deposit of 2 is an over-deposit, the
\* distributor's deposit is refused.
C23_Witness ==
    /\ initialized /\ now < st.start_ts
    /\ deposits_received > 0
    /\ vault = st.total_supply - 1
    /\ deposit_tokens(st.admin, 1).res = "Ok"
    /\ deposit_tokens(st.admin, 1).vault = st.total_supply
    /\ deposit_tokens(st.admin, 2).res = "OverDeposit"
    /\ deposit_tokens(st.distributor, 1).res = "UnauthorizedAdmin"
    /\ deposit_tokens(st.admin, 0).res = "InvalidConfig"

\* Amounts a withdrawal is tried with: nothing, one token, the whole vault, one
\* less and one more.
WithdrawProbes == {a \in {0, 1, vault - 1, vault, vault + 1} : a >= 0}

\* Started, nothing released, the vault below total_supply.
Underfunded ==
    /\ initialized
    /\ now >= st.start_ts
    /\ st.released_supply = 0
    /\ vault < st.total_supply

\* C24 as stated: the admin's admin_withdraw of any amount <= vault balance is
\* accepted in every lifecycle state, and in an underfunded started schedule
\* every release_to_recipient and batch_release fails with
\* VaultNotExactlyFunded.
C24_AnyAmountUpToBalance ==
    initialized =>
        /\ \A amount \in {a \in WithdrawProbes : a <= vault} :
               admin_withdraw(st.admin, amount).res = "Ok"
        /\ Underfunded =>
               \A signer \in Signers, w \in Wallets :
                   release_to_recipient(signer, w, Ata(w)).res = "VaultNotExactlyFunded"

\* C24 as the program has it.  In every state (before and after sealing, start,
\* pause and end) the admin's admin_withdraw(amount) succeeds exactly when
\* 0 < amount <= vault balance; amount 0 fails with InvalidConfig and an amount
\* above the balance with InsufficientVaultBalance; a successful withdrawal
\* lowers the vault by amount and changes nothing else.  Once now >= start_ts
\* with released_supply = 0 and vault < total_supply, that stays so for ever:
\* every release_to_recipient and batch_release fails and changes nothing (with
\* VaultNotExactlyFunded when sealed, unpaused, signed by the stored distributor
\* and, for a batch, well-formed), every deposit fails, and no step raises the
\* vault.
C24_WithdrawEscapeHatch ==
    /\ [](initialized =>
            \A amount \in WithdrawProbes :
                LET out == admin_withdraw(st.admin, amount)
                IN  /\ out.res = "Ok" <=> (0 < amount /\ amount <= vault)
                    /\ out.res = "Ok" =>
                           /\ out.vault = vault - amount
                           /\ out.st = st /\ out.entries = entries
                    /\ amount = 0 => out.res = "InvalidConfig"
                    /\ amount > vault => out.res = "InsufficientVaultBalance"
                    /\ out.res # "Ok" => Refused(out))
    /\ [](Underfunded =>
            /\ \A signer \in Signers, wallet \in WalletInputs, ata \in AllAccounts :
                 LET out == release_to_recipient(signer, wallet, ata)
                 IN  /\ out.res # "Ok" /\ Unchanged(out)
                     /\ (st.sealed /\ ~st.paused /\ signer = st.distributor)
                            => out.res = "VaultNotExactlyFunded"
            /\ \A signer \in Signers, wallets \in BatchWallets :
                 \A accounts \in BatchAccounts(wallets) :
                     LET out == batch_release(signer, wallets, accounts)
                     IN  /\ out.res # "Ok" /\ Unchanged(out)
                         /\ (st.sealed /\ ~st.paused /\ signer = st.distributor
                                 /\ BatchShapeOk(wallets, accounts))
                                => out.res = "VaultNotExactlyFunded"
            /\ \A signer \in Signers, amount \in DepositProbes :
                 deposit_tokens(signer, amount).res # "Ok")
    /\ [][Underfunded => (Underfunded' /\ vault' <= vault)]_vars

\* A started, sealed, unpaused schedule that a withdrawal has left underfunded
\* before anything was released: the release is turned down by the funding gate,
\* the missing tokens cannot be deposited, and the rest can still be withdrawn.
C24_Witness ==
    /\ Underfunded /\ st.sealed /\ ~st.paused
    /\ deposits_received = st.total_supply
    /\ taken_out > 0 /\ vault > 0
    /\ admin_withdraw(st.admin, vault).res = "Ok"
    /\ admin_withdraw(st.admin, vault).vault = 0
    /\ admin_withdraw(st.admin, 0).res = "InvalidConfig"
    /\ release_to_recipient(st.distributor, WalletNames[1], Ata(WalletNames[1])).res
           = "VaultNotExactlyFunded"
    /\ deposit_tokens(st.admin, st.total_supply - vault).res = "DepositAfterStart"

\* boundary(S, 12) of the stored start.
VestingEnd ==
    boundary_ts_from_start(datetime_from_unix(st.start_ts).v, DURATION_MONTHS).v

\* Every entry is revoked or paid in full.
AllSettled ==
    \A i \in 1..MAX_RECIPIENTS :
        entries[i].revoked = 1 \/ entries[i].released_amount = entries[i].allocation

\* C25: sweep_dust_after_end succeeds exactly when the signer is the admin,
\* now >= boundary(S, 12) and every entry is revoked or has released_amount =
\* allocation; it then moves the whole vault balance to the admin (the vault
\* becomes 0; an empty vault still succeeds), emits DustSwept with the amount
\* moved (0 for an empty vault) and changes no schedule or recipient field; the
\* admin's sweep before boundary(S, 12) fails with SweepBeforeEnd and, from then
\* on, with an outstanding non-revoked entry fails with
\* SweepNotAllowedOutstanding; a failing sweep changes nothing.
C25_SweepRules ==
    [](initialized =>
         \A signer \in Signers :
             LET out == sweep_dust_after_end(signer)
             IN  /\ out.res = "Ok"
                        <=> (signer = st.admin /\ now >= VestingEnd /\ AllSettled)
                 /\ out.res = "Ok" =>
                        /\ out.vault = 0
                        /\ out.st = st /\ out.entries = entries
                        /\ out.events = <<DustSwept(st.admin, vault)>>
                 /\ out.res # "Ok" => Refused(out)
                 /\ (signer = st.admin /\ now < VestingEnd)
                        => out.res = "SweepBeforeEnd"
                 /\ (signer = st.admin /\ now >= VestingEnd /\ ~AllSettled)
                        => out.res = "SweepNotAllowedOutstanding")

\* After the end, one recipient paid in full and the other revoked with part of
\* its allocation unreleased: the admin's sweep empties the vault.
C25_Witness ==
    /\ initialized /\ st.sealed /\ now >= VestingEnd
    /\ st.recipient_count = 2
    /\ AllSettled
    /\ \E i \in 1..2 : entries[i].revoked = 1
                         /\ entries[i].released_amount < entries[i].allocation
    /\ \E i \in 1..2 : entries[i].revoked = 0
                         /\ entries[i].released_amount = entries[i].allocation
    /\ vault > 0
    /\ sweep_dust_after_end(st.admin).res = "Ok"
    /\ sweep_dust_after_end(st.admin).vault = 0
    /\ sweep_dust_after_end(st.admin).events[1].amount = vault

\* The step revokes the entry in slot i.
Revokes(i) == entries[i].revoked = 0 /\ entries'[i].revoked = 1

\* A release for the wallet passes every check up to the entry: sealed, not
\* paused, started, the funding gate, the vault holding what has vested.
Releasable(w) ==
    /\ st.sealed /\ ~st.paused /\ now >= st.start_ts
    /\ (st.released_supply = 0 => vault = st.total_supply)
    /\ vault >= VestedNow(w)

\* C26 as stated: what has vested when revoke_recipient is applied stays payable,
\* so a release right after the revocation brings released_amount up to the
\* amount vested at the revocation.
C26_VestedAtRevocationStaysPayable ==
    [][\A i \in 1..st.recipient_count :
          (initialized /\ Revokes(i) /\ Releasable(entries[i].wallet))
              => release_to_recipient(st.distributor, entries[i].wallet,
                                      Ata(entries[i].wallet))'.entries[i].released_amount
                     = VestedNow(entries[i].wallet)]_vars

\* C26 as the program has it.  Revocation takes back nothing already released
\* and forfeits what is not: the revoking step changes the entry's revoked flag
\* and nothing else (released_amount, released_supply and the vault stay), from
\* then on the entry never changes, every release_to_recipient and every batch of
\* one for the wallet that succeeds transfers nothing (and with the release
\* conditions met it does succeed), so an amount vested but unreleased at the
\* revocation is not paid; and it does not hold back sweep_dust_after_end, which
\* from boundary(S, 12) on, all other entries paid, moves the whole vault balance
\* to the admin.
C26_RevocationForfeitsUnreleased ==
    /\ [][\A i \in 1..MAX_RECIPIENTS :
             /\ (initialized /\ Revokes(i))
                    => /\ entries' = [entries EXCEPT ![i].revoked = 1]
                       /\ st' = st /\ vault' = vault
             /\ (initialized /\ entries[i].revoked = 1) => entries'[i] = entries[i]]_vars
    /\ [](initialized =>
            \A i \in 1..st.recipient_count :
                entries[i].revoked = 1 =>
                    /\ \A signer \in Signers, ata \in AllAccounts :
                         release_to_recipient(signer, entries[i].wallet, ata).res = "Ok"
                             => NoOp(release_to_recipient(signer, entries[i].wallet, ata))
                    /\ \A signer \in Signers :
                         LET out == batch_release(signer, <<entries[i].wallet>>,
                                                  <<Ata(entries[i].wallet)>>)
                         IN  out.res = "Ok" => NoOp(out)
                    /\ (st.sealed /\ ~st.paused /\ now >= st.start_ts
                           /\ (st.released_supply = 0 => vault = st.total_supply))
                          => NoOp(release_to_recipient(st.distributor, entries[i].wallet,
                                                       Ata(entries[i].wallet)))
                    /\ (now >= VestingEnd /\ AllSettled)
                          => /\ sweep_dust_after_end(st.admin).res = "Ok"
                             /\ sweep_dust_after_end(st.admin).vault = 0)

\* A revoked recipient paid for the first month only, two months of vesting
\* unreleased and in the vault: the distributor's release succeeds and pays
\* nothing.
C26_Witness ==
    /\ initialized /\ Releasable(WalletNames[1])
    /\ FindEntry(entries, st.recipient_count, WalletNames[1]) = 1
    /\ entries[1].revoked = 1
    /\ entries[1].released_amount > 0
    /\ entries[1].released_amount < VestedNow(WalletNames[1])
    /\ NoOp(release_to_recipient(st.distributor, WalletNames[1], Ata(WalletNames[1])))

\* C27: the admin's pause succeeds exactly when the schedule is not paused and
\* fails with SchedulePaused otherwise; the admin's unpause succeeds exactly when
\* it is paused and fails with ScheduleNotPaused otherwise; the admin's
\* revoke_recipient fails with RecipientRevoked for a revoked wallet and with
\* RecipientNotFound for a wallet not in the list, and succeeds for a listed
\* wallet not yet revoked; a failing call changes nothing; a successful call
\* changes only the paused flag, or only the revoked flag of the one entry; all
\* this in every state, sealed or not, started or not, paused or not, ended or
\* not.
C27_ToggleErrors ==
    /\ [](initialized =>
            /\ pause(st.admin).res = (IF st.paused THEN "SchedulePaused" ELSE "Ok")
            /\ unpause(st.admin).res = (IF st.paused THEN "Ok" ELSE "ScheduleNotPaused")
            /\ st.paused => Refused(pause(st.admin))
            /\ ~st.paused => Refused(unpause(st.admin))
            /\ ~st.paused =>
                   /\ pause(st.admin).st = [st EXCEPT !.paused = TRUE]
                   /\ pause(st.admin).entries = entries
                   /\ pause(st.admin).vault = vault
            /\ st.paused =>
                   /\ unpause(st.admin).st = [st EXCEPT !.paused = FALSE]
                   /\ unpause(st.admin).entries = entries
                   /\ unpause(st.admin).vault = vault
            /\ \A wallet \in WalletInputs :
                   LET out == revoke_recipient(st.admin, wallet)
                       i   == FindEntry(entries, st.recipient_count, wallet)
                   IN  /\ (\A k \in 1..st.recipient_count : entries[k].wallet # wallet)
                              => out.res = "RecipientNotFound"
                       /\ (\E k \in 1..st.recipient_count :
                               entries[k].wallet = wallet /\ entries[k].revoked = 1)
                              => out.res = "RecipientRevoked"
                       /\ (\E k \in 1..st.recipient_count :
                               entries[k].wallet = wallet /\ entries[k].revoked = 0)
                              => /\ out.res = "Ok"
                                 /\ out.entries = [entries EXCEPT ![i].revoked = 1]
                                 /\ out.entries[i].wallet = wallet
                                 /\ out.st = st /\ out.vault = vault
                       /\ out.res # "Ok" => Refused(out))
    /\ [][(initialized /\ st'.paused # st.paused) =>
            /\ st' = [st EXCEPT !.paused = ~st.paused]
            /\ entries' = entries /\ vault' = vault]_vars

\* A paused schedule after the end with the first recipient revoked: pause and
\* the second revocation are turned down, unpause and the revocation of the
\* other recipient go through, an unlisted wallet is not found.
C27_Witness ==
    /\ initialized /\ st.sealed /\ st.paused /\ now >= VestingEnd
    /\ st.recipient_count = 2
    /\ entries[1].revoked = 1 /\ entries[2].revoked = 0
    /\ pause(st.admin).res = "SchedulePaused"
    /\ unpause(st.admin).res = "Ok"
    /\ revoke_recipient(st.admin, entries[1].wallet).res = "RecipientRevoked"
    /\ revoke_recipient(st.admin, entries[2].wallet).res = "Ok"
    /\ revoke_recipient(st.admin, Outsider).res = "RecipientNotFound"

\* The releasable amount the quote for the wallet reports.
Quoted(w) == emit_vesting_quote(w).events[1].releasable

\* C28 as stated: from start_ts on, the quote of every listed wallet succeeds,
\* changes nothing and reports releasable = vested(month_index(now)) -
\* released_amount, which is the amount a successful release_to_recipient for
\* the wallet at the same timestamp transfers.
C28_QuoteParity ==
    (initialized /\ now >= st.start_ts) =>
        \A w \in Wallets :
            FindEntry(entries, st.recipient_count, w) # 0 =>
                /\ emit_vesting_quote(w).res = "Ok"
                /\ Unchanged(emit_vesting_quote(w))
                /\ Quoted(w) = VestedNow(w)
                       - entries[FindEntry(entries, st.recipient_count, w)].released_amount
                /\ release_to_recipient(st.distributor, w, Ata(w)).res = "Ok"
                       => Quoted(w) = Transferred(w)

\* C28 as the program has it.  emit_vesting_quote takes no signer and reads
\* neither sealed nor paused: it fails with BeforeStart before start_ts, with
\* RecipientNotFound for a wallet not in the list, and succeeds otherwise; it
\* never changes schedule state, entries or vault; for every listed wallet it
\* reports the month index, vested(month_index(now)), released_amount and
\* releasable = vested - released_amount.  For a wallet that is not revoked this
\* is the amount a successful release_to_recipient at the same timestamp
\* transfers; for a revoked wallet the release transfers nothing, whatever the
\* quote reports.
C28_QuoteParityUnlessRevoked ==
    [](initialized =>
         \A w \in WalletInputs :
             LET q == emit_vesting_quote(w)
                 i == FindEntry(entries, st.recipient_count, w)
             IN  /\ Unchanged(q)
                 /\ q.res = (IF now < st.start_ts THEN "BeforeStart"
                             ELSE IF i = 0 THEN "RecipientNotFound" ELSE "Ok")
                 /\ q.res = "Ok" =>
                        /\ Len(q.events) = 1
                        /\ q.events[1].wallet = w
                        /\ q.events[1].month_index = month_index_at(now, st.start_ts).v
                        /\ q.events[1].vested_amount = VestedNow(w)
                        /\ q.events[1].released_amount = entries[i].released_amount
                        /\ q.events[1].releasable = VestedNow(w) - entries[i].released_amount
                        /\ release_to_recipient(st.distributor, w, Ata(w)).res = "Ok"
                               => Transferred(w) = (IF entries[i].revoked = 0
                                                    THEN q.events[1].releasable ELSE 0))

\* A running schedule with one recipient owed its vested amount and the other
\* revoked with part of the vested amount unreleased: the first is quoted what
\* the release pays, the second is quoted an amount the release does not pay.
C28_Witness ==
    /\ initialized /\ st.sealed /\ ~st.paused /\ now >= st.start_ts
    /\ st.recipient_count = 2
    /\ entries[1].revoked = 0 /\ entries[2].revoked = 1
    /\ release_to_recipient(st.distributor, entries[1].wallet, Ata(entries[1].wallet)).res
           = "Ok"
    /\ Quoted(entries[1].wallet) > 0
    /\ Quoted(entries[1].wallet) = Transferred(entries[1].wallet)
    /\ Quoted(entries[2].wallet) > 0
    /\ NoOp(release_to_recipient(st.distributor, entries[2].wallet, Ata(entries[2].wallet)))

\* The boundaries the clock value has reached.
Reached(t) == {k \in 0..DURATION_MONTHS : t >= boundary(st.start_ts, k)}

\* C29: for the start S of the schedule, month_index(now, S) is defined with a
\* value in 1..12 at every now >= S and does not decrease as now grows;
\* boundary(S, k) is strictly increasing in k over 0..12, so the boundaries
\* reached by a clock value are 0..k for some k and the scan that stops at the
\* first boundary not reached returns the largest boundary reached.
C29_MonthIndexMonotone ==
    /\ [](LET idx == [t \in {u \in Probes(st.start_ts) : u >= st.start_ts}
                          |-> month_index(t, st.start_ts)]
          IN  /\ \A t \in DOMAIN idx : idx[t].ok /\ idx[t].v \in 1..DURATION_MONTHS
              /\ \A t1, t2 \in DOMAIN idx : t1 <= t2 => idx[t1].v <= idx[t2].v)
    /\ [](\A j, k \in 0..DURATION_MONTHS :
              j < k => boundary(st.start_ts, j) < boundary(st.start_ts, k))
    /\ [](now >= st.start_ts =>
              /\ month_index(now, st.start_ts).ok
              /\ month_index(now, st.start_ts).v \in 1..DURATION_MONTHS
              /\ Reached(now) # {}
              /\ \A k \in Reached(now) : \A j \in 0..k : j \in Reached(now)
              /\ \E k \in Reached(now) :
                     /\ \A j \in Reached(now) : j <= k
                     /\ months_between(now, st.start_ts) = Ok(k)
                     /\ month_index(now, st.start_ts) = Ok(Min(k + 1, DURATION_MONTHS)))
    /\ [][(now >= st.start_ts /\ now' >= now) =>
            month_index(now', st.start_ts).v >= month_index(now, st.start_ts).v]_vars

\* Start 2023-12-31T23:59:59Z, the clock one second past the twelfth boundary:
\* twelve boundaries were reached one second before the end and thirteen now, and
\* the month index is 12 at both instants.
C29_Witness ==
    /\ st.start_ts = ts(2023, 12, 31, 86399)
    /\ now = boundary(st.start_ts, DURATION_MONTHS) + 1
    /\ months_between(now, st.start_ts) = Ok(12)
    /\ months_between(now - 2, st.start_ts) = Ok(11)
    /\ month_index(now, st.start_ts) = Ok(12)
    /\ month_index(now - 2, st.start_ts) = Ok(12)

\* The amount due at clock value t to an allocation of which released has been
\* paid, for a schedule started at start_ts: the allocation itself in month 12,
\* a twelfth of it (rounded down) per month begun before.
AmountDue(start_ts, t, allocation, released) ==
    (IF month_index(t, start_ts).v = DURATION_MONTHS THEN allocation
     ELSE (allocation \div DURATION_MONTHS) * month_index(t, start_ts).v) - released

\* What the entry in slot i is due in the current state.
DueNow(i) == AmountDue(st.start_ts, now, entries[i].allocation, entries[i].released_amount)

\* What the events of an outcome report as paid to the wallet.
RECURSIVE PaidTo(_, _)
PaidTo(events, w) ==
    IF events = <<>> THEN 0
    ELSE (IF Head(events).wallet = w THEN Head(events).amount ELSE 0)
             + PaidTo(Tail(events), w)

\* C30: the amount a successful release transfers to a non-revoked recipient is
\* AmountDue(start_ts, now, allocation, released_amount), a function of these
\* four values alone: in every reachable state, whatever the pause history, the
\* stored distributor, the other entries and the earlier releases, a successful
\* release_to_recipient lowers the vault by exactly that amount and raises
\* released_amount by it, and a successful batch_release naming the wallet
\* (alone, before or after another wallet) pays it exactly that amount.
C30_ReleaseDeterminism ==
    [](initialized =>
         \A w \in Wallets :
             LET i == FindEntry(entries, st.recipient_count, w)
             IN  (i # 0 /\ entries[i].revoked = 0) =>
                    /\ LET out == release_to_recipient(st.distributor, w, Ata(w))
                       IN  out.res = "Ok" =>
                              /\ vault - out.vault = DueNow(i)
                              /\ out.entries[i].released_amount
                                     = entries[i].released_amount + DueNow(i)
                              /\ PaidTo(out.events, w) = DueNow(i)
                    /\ \A wallets \in {<<w>>} \cup {<<w, v>> : v \in Wallets \ {w}}
                                        \cup {<<v, w>> : v \in Wallets \ {w}} :
                          LET out == batch_release(st.distributor, wallets,
                                                   GoodAccounts(wallets))
                          IN  out.res = "Ok" =>
                                 /\ PaidTo(out.events, w) = DueNow(i)
                                 /\ out.entries[i].released_amount
                                        = entries[i].released_amount + DueNow(i)
                                 /\ Len(wallets) = 1 => vault - out.vault = DueNow(i))

\* Month 12 with the distributor replaced: the recipient of 100, paid 8 in the
\* first month, is due 92 while the other recipient is revoked; the single
\* release and the batch both pay 92.
C30_Witness ==
    /\ initialized /\ st.sealed /\ ~st.paused
    /\ st.distributor = "dist2"
    /\ st.recipient_count = 2
    /\ entries[1].allocation = 100 /\ entries[1].revoked = 0
    /\ entries[1].released_amount = 8
    /\ entries[2].revoked = 1
    /\ DueNow(1) = 92
    /\ release_to_recipient(st.distributor, entries[1].wallet, Ata(entries[1].wallet)).res
           = "Ok"
    /\ Transferred(entries[1].wallet) = 92
    /\ PaidTo(batch_release(st.distributor, <<entries[2].wallet, entries[1].wallet>>,
                            <<Ata(entries[2].wallet), Ata(entries[1].wallet)>>).events,
              entries[1].wallet) = 92

\* The wallet list of length n that names the offered wallets in turn.
Turns(n) == [k \in 1..n |-> WalletNames[1 + (k % Len(WalletNames))]]

\* The result codes of the three shape checks.
ShapeErrors == {"EmptyBatch", "BatchTooLarge", "InvalidConfig"}

\* C31: batch_release with an empty wallet list fails with EmptyBatch, with more
\* than 5 wallets with BatchTooLarge, and with a number of destination accounts
\* different from the number of wallets with InvalidConfig, when the schedule is
\* sealed and not paused and the stored distributor signs (otherwise it fails on
\* that earlier check); in each case nothing is transferred and nothing changes;
\* every batch of 1..5 wallets with as many destinations passes the shape checks.
C31_BatchShape ==
    [](initialized =>
         \A signer \in Signers :
             LET pass == st.sealed /\ ~st.paused /\ signer = st.distributor
             IN  /\ Refused(batch_release(signer, <<>>, <<>>))
                 /\ pass => batch_release(signer, <<>>, <<>>).res = "EmptyBatch"
                 /\ \A n \in (MAX_BATCH_RELEASE + 1)..(MAX_BATCH_RELEASE + 2) :
                        /\ Refused(batch_release(signer, Turns(n), GoodAccounts(Turns(n))))
                        /\ pass => batch_release(signer, Turns(n), GoodAccounts(Turns(n))).res
                                       = "BatchTooLarge"
                 /\ \A n \in 1..MAX_BATCH_RELEASE :
                        /\ \A m \in {n - 1, n + 1} :
                              /\ Refused(batch_release(signer, Turns(n), GoodAccounts(Turns(m))))
                              /\ pass => batch_release(signer, Turns(n),
                                                       GoodAccounts(Turns(m))).res
                                             = "InvalidConfig"
                        /\ batch_release(signer, Turns(n), GoodAccounts(Turns(n))).res
                               \notin ShapeErrors
                        /\ (pass /\ now >= st.start_ts
                               /\ (st.released_supply = 0 => vault = st.total_supply)
                               /\ st.recipient_count = Len(WalletNames)
                               /\ vault >= st.total_supply - st.released_supply)
                              => batch_release(signer, Turns(n), GoodAccounts(Turns(n))).res
                                     = "Ok")

\* A funded running schedule with both recipients owed: the batch of five pays,
\* the batch of six is too large, the empty batch and the batch with a missing
\* destination are turned down.
C31_Witness ==
    /\ initialized /\ st.sealed /\ ~st.paused /\ now >= st.start_ts
    /\ st.recipient_count = 2
    /\ batch_release(st.distributor, Turns(5), GoodAccounts(Turns(5))).res = "Ok"
    /\ Len(batch_release(st.distributor, Turns(5), GoodAccounts(Turns(5))).events) = 2
    /\ batch_release(st.distributor, Turns(6), GoodAccounts(Turns(6))).res = "BatchTooLarge"
    /\ batch_release(st.distributor, <<>>, <<>>).res = "EmptyBatch"
    /\ batch_release(st.distributor, Turns(2), GoodAccounts(Turns(1))).res = "InvalidConfig"

\* C32: in every reachable state, for every wallet and destination account,
\* batch_release of the one wallet and release_to_recipient of it agree on
\* whether the call succeeds, and on success leave the same released_amount in
\* every entry, the same released_supply and the same vault balance; also for a
\* wallet that is not among the first recipient_count entries.
C32_SingleBatchEquivalence ==
    initialized =>
        \A signer \in Signers, wallet \in WalletInputs, ata \in AllAccounts :
            LET single == release_to_recipient(signer, wallet, ata)
                batch  == batch_release(signer, <<wallet>>, <<ata>>)
            IN  /\ (single.res = "Ok") <=> (batch.res = "Ok")
                /\ single.res = "Ok" =>
                       /\ \A i \in 1..MAX_RECIPIENTS :
                              single.entries[i].released_amount
                                  = batch.entries[i].released_amount
                       /\ single.st.released_supply = batch.st.released_supply
                       /\ single.vault = batch.vault

\* The positions of a wallet list that a batch pays: the first appearance of a
\* listed, non-revoked wallet that is owed something.
PaidPositions(wallets) ==
    {k \in 1..Len(wallets) :
        /\ FindEntry(entries, MAX_RECIPIENTS, wallets[k]) # 0
        /\ entries[FindEntry(entries, MAX_RECIPIENTS, wallets[k])].revoked = 0
        /\ Owed(FindEntry(entries, MAX_RECIPIENTS, wallets[k])) > 0
        /\ \A j \in 1..(k - 1) : wallets[j] # wallets[k]}

\* The e-th smallest element of a set of positions.
Nth(positions, e) ==
    CHOOSE k \in positions : Cardinality({j \in positions : j <= k}) = e

\* C33: every transfer of a non-zero amount to a recipient emits exactly one
\* event, TokensReleased from release_to_recipient and TokensReleasedBatchItem from
\* batch_release, whose amount is the amount transferred and whose released_total
\* is the entry's released_amount after the transfer; a release that transfers
\* nothing emits none; the events of a batch follow the order of the wallet list;
\* and in every reachable state the amounts of all release events emitted so far
\* add up to released_supply.
C33_ReleaseEventAccounting ==
    /\ [](released_events = st.released_supply)
    /\ [](initialized =>
            \A wallet \in WalletInputs, ata \in AllAccounts :
                LET out == release_to_recipient(st.distributor, wallet, ata)
                    i   == FindEntry(entries, st.recipient_count, wallet)
                IN  out.res = "Ok" =>
                       IF out.vault = vault THEN out.events = <<>>
                       ELSE /\ Len(out.events) = 1
                            /\ out.events[1].name = "TokensReleased"
                            /\ out.events[1].wallet = wallet
                            /\ out.events[1].amount = vault - out.vault
                            /\ out.events[1].amount > 0
                            /\ out.events[1].released_total = out.entries[i].released_amount
                            /\ out.events[1].allocation = entries[i].allocation
                            /\ out.entries[i].released_amount
                                   = entries[i].released_amount + out.events[1].amount)
    /\ [](initialized =>
            \A wallets \in BatchWallets :
                \A accounts \in BatchAccounts(wallets) :
                    LET out  == batch_release(st.distributor, wallets, accounts)
                        paid == PaidPositions(wallets)
                    IN  out.res = "Ok" =>
                           /\ Len(out.events) = Cardinality(paid)
                           /\ ReleaseEventsSum(out.events) = vault - out.vault
                           /\ ReleaseEventsSum(out.events)
                                  = out.st.released_supply - st.released_supply
                           /\ \A e \in 1..Len(out.events) :
                                 LET k == Nth(paid, e)
                                     i == FindEntry(entries, MAX_RECIPIENTS, wallets[k])
                                 IN  /\ out.events[e].name = "TokensReleasedBatchItem"
                                     /\ out.events[e].wallet = wallets[k]
                                     /\ out.events[e].amount = Owed(i)
                                     /\ out.events[e].released_total
                                            = out.entries[i].released_amount
                                     /\ out.entries[i].released_amount
                                            = entries[i].released_amount + Owed(i))

\* After an earlier release, with both recipients owed: the batch naming the
\* second recipient before the first emits their events in that order, and the
\* events emitted so far add up to released_supply.
C33_Witness ==
    /\ initialized /\ st.recipient_count = 2
    /\ st.released_supply > 0
    /\ released_events = st.released_supply
    /\ LET a   == entries[1].wallet
           b   == entries[2].wallet
           out == batch_release(st.distributor, <<b, a>>, <<Ata(b), Ata(a)>>)
       IN  /\ out.res = "Ok"
           /\ Len(out.events) = 2
           /\ out.events[1].wallet = b /\ out.events[2].wallet = a
           /\ out.events[1].amount + out.events[2].amount = vault - out.vault

\* The release checks placed before the entry is looked at: sealed, not paused,
\* started, the funding gate.
ChecksPass ==
    /\ st.sealed /\ ~st.paused /\ now >= st.start_ts
    /\ (st.released_supply = 0 => vault = st.total_supply)

\* No event of the outcome names the wallet.
Silent(out, w) == \A e \in 1..Len(out.events) : out.events[e].wallet # w

\* C34: once revoke_recipient(w) has succeeded, w's entry never changes again:
\* no step changes its released_amount or clears the flag; every
\* release_to_recipient(w) that succeeds changes nothing and emits nothing, and
\* it does succeed when the sealed, pause, distributor, funding-gate and
\* destination checks pass; a successful batch_release naming w leaves w's entry
\* alone, emits no event for w, and does to the other wallet what the batch
\* without w does.
C34_RevokedStaysUnpaid ==
    /\ [][\A i \in 1..MAX_RECIPIENTS :
             (initialized /\ entries[i].revoked = 1) =>
                 /\ entries'[i].revoked = 1
                 /\ entries'[i].released_amount = entries[i].released_amount]_vars
    /\ [](initialized =>
            \A i \in 1..st.recipient_count :
                entries[i].revoked = 1 =>
                    LET w == entries[i].wallet
                    IN  /\ \A ata \in AllAccounts :
                             LET out == release_to_recipient(st.distributor, w, ata)
                             IN  /\ out.res = "Ok" => NoOp(out)
                                 /\ (ChecksPass /\ ata = Ata(w)) => out.res = "Ok"
                        /\ ChecksPass =>
                               NoOp(batch_release(st.distributor, <<w>>, <<Ata(w)>>))
                        /\ \A v \in Wallets \ {w} :
                             \A wallets \in {<<w, v>>, <<v, w>>} :
                                 LET out   == batch_release(st.distributor, wallets,
                                                            GoodAccounts(wallets))
                                     alone == batch_release(st.distributor, <<v>>,
                                                            <<Ata(v)>>)
                                 IN  /\ out.res = "Ok" =>
                                        /\ out.entries[i] = entries[i]
                                        /\ Silent(out, w)
                                 /\ out = alone)

\* A running funded schedule in which the first recipient was revoked while owed
\* its vested amount and the second is owed too: the release of the first pays
\* nothing, the batch naming both pays the second only.
C34_Witness ==
    /\ initialized /\ ChecksPass
    /\ st.recipient_count = 2
    /\ entries[1].revoked = 1 /\ entries[2].revoked = 0
    /\ Owed(1) > 0 /\ Owed(2) > 0
    /\ vault >= Owed(1) + Owed(2)
    /\ NoOp(release_to_recipient(st.distributor, entries[1].wallet, Ata(entries[1].wallet)))
    /\ LET out == batch_release(st.distributor, <<entries[1].wallet, entries[2].wallet>>,
                                <<Ata(entries[1].wallet), Ata(entries[2].wallet)>>)
       IN  /\ out.res = "Ok"
           /\ vault - out.vault = Owed(2)
           /\ out.entries[1] = entries[1]

\* What the non-revoked entries have not been paid yet of their allocations.
RECURSIVE Outstanding(_)
Outstanding(n) ==
    IF n = 0 THEN 0
    ELSE (IF entries[n].revoked = 0
          THEN entries[n].allocation - entries[n].released_amount ELSE 0)
             + Outstanding(n - 1)

\* C35: as long as nothing has been taken out of the vault by admin_withdraw or
\* sweep_dust_after_end, once released_supply > 0 the vault holds exactly
\* total_supply - released_supply, which covers allocation - released_amount of
\* all non-revoked entries together; and no release_to_recipient and no
\* batch_release fails with InsufficientVaultBalance, whatever pauses, unpauses,
\* revocations, distributor changes and releases came before.
C35_SolvencyWithoutWithdrawal ==
    [](  (initialized /\ taken_out = 0) =>
            /\ st.released_supply > 0 =>
                   /\ vault = st.total_supply - st.released_supply
                   /\ vault >= Outstanding(MAX_RECIPIENTS)
                   /\ st.sealed
            /\ \A signer \in Signers, wallet \in WalletInputs, ata \in AllAccounts :
                   release_to_recipient(signer, wallet, ata).res # "InsufficientVaultBalance"
            /\ \A signer \in Signers, wallets \in BatchWallets :
                   \A accounts \in BatchAccounts(wallets) :
                       batch_release(signer, wallets, accounts).res
                           # "InsufficientVaultBalance")

\* Nothing ever taken out, a release made, the distributor replaced, one
\* recipient revoked while owed: the other recipient is owed and is paid by the
\* next release, out of a vault that holds total_supply - released_supply.
C35_Witness ==
    /\ initialized /\ taken_out = 0 /\ ChecksPass
    /\ st.released_supply > 0
    /\ st.distributor = "dist2"
    /\ st.recipient_count = 2
    /\ \E i \in 1..2 :
         /\ entries[i].revoked = 1 /\ Owed(i) > 0
         /\ entries[3 - i].revoked = 0 /\ Owed(3 - i) > 0
         /\ release_to_recipient(st.distributor, entries[3 - i].wallet,
                                 Ata(entries[3 - i].wallet)).res = "Ok"
    /\ vault = st.total_supply - st.released_supply
    /\ vault > Outstanding(MAX_RECIPIENTS)

\* Every non-revoked entry has been paid its allocation.
AllPaid ==
    \A i \in 1..MAX_RECIPIENTS :
        entries[i].revoked = 0 => entries[i].released_amount = entries[i].allocation

\* From some point on every non-revoked entry is paid in full for good, and the
\* admin's sweep is accepted once the clock has reached boundary(S, 12).
PaidForGood ==
    <>[](AllPaid /\ (now >= VestingEnd => sweep_dust_after_end(st.admin).res = "Ok"))

\* C36 as stated: in the sealed, exactly funded schedule without admin_withdraw,
\* with every pause followed by an unpause, the clock passing the last boundary
\* and the distributor's release of each wallet weakly fair, eventually every
\* non-revoked entry has released_amount = allocation and keeps it, and the sweep
\* is enabled once now >= boundary(S, 12).
C36_PayoutUnderWeakFairness ==
    (\A w \in Wallets : WF_vars(Release(w))) => PaidForGood

\* C36 as the program has it: the same with the distributor's release of each
\* wallet strongly fair, that is, a release that is possible again and again is
\* made at some point, however the admin pauses in between.
C36_EventualFullPayout ==
    (\A w \in Wallets : SF_vars(Release(w))) => PaidForGood

\* After the end with both recipients paid in full and nothing taken out: the
\* sweep is accepted.
C36_Witness ==
    /\ now >= VestingEnd /\ taken_out = 0
    /\ \A i \in 1..2 : entries[i].revoked = 0
                         /\ entries[i].released_amount = entries[i].allocation
    /\ AllPaid
    /\ st.released_supply = st.total_supply /\ vault = 0
    /\ sweep_dust_after_end(st.admin).res = "Ok"

\* boundary(S, k) and month_index(t, S) for the start of the model and the clock
\* values around its boundaries, computed once; other arguments on the spot.
BoundaryTable == [k \in 0..DURATION_MONTHS |-> boundary(StartTs, k)]
BoundaryAt(k) ==
    IF st.start_ts = StartTs THEN BoundaryTable[k] ELSE boundary(st.start_ts, k)

AccrualTable ==
    [t \in {u \in Probes(StartTs) : u >= StartTs} |-> month_index(t, StartTs)]
MonthAt(t) ==
    IF st.start_ts = StartTs /\ t \in DOMAIN AccrualTable THEN AccrualTable[t]
    ELSE month_index(t, st.start_ts)

\* What the entry in slot i has vested at clock value t.
VestedAt(i, t) ==
    vested_amount(entries[i].monthly_amount, entries[i].final_amount, MonthAt(t).v)

\* The twelfth month: from boundary(S, 11) up to the vesting end boundary(S, 12).
TwelfthMonth == now >= BoundaryAt(11) /\ now < BoundaryAt(DURATION_MONTHS)

\* C37: accrual timing.  For every listed entry of a started schedule: the month
\* index at now = start_ts is 1 and a release to a non-revoked recipient that
\* was paid nothing yet transfers its monthly_amount there; vested is
\* k * monthly_amount at boundary(S, k-1), one second later and one second
\* before boundary(S, k), for k in 1..11; vested is the allocation at
\* boundary(S, 11), one second before boundary(S, 12), at boundary(S, 12) and
\* ten years after the start; and in the twelfth month a release to a
\* non-revoked recipient brings released_amount to the allocation while
\* sweep_dust_after_end is still refused with SweepBeforeEnd.
C37_AccrualTiming ==
    [](initialized =>
          /\ MonthAt(st.start_ts) = Ok(1)
          /\ \A i \in 1..st.recipient_count :
                /\ \A k \in 1..11 :
                      \A t \in {BoundaryAt(k - 1), BoundaryAt(k - 1) + 1, BoundaryAt(k) - 1} :
                          VestedAt(i, t) = k * entries[i].monthly_amount
                /\ \A t \in {BoundaryAt(11), BoundaryAt(11) + 1, BoundaryAt(12) - 1,
                              BoundaryAt(12), BoundaryAt(12) + 1,
                              st.start_ts + 3653 * SECONDS_PER_DAY} :
                      VestedAt(i, t) = entries[i].allocation
                /\ (/\ ChecksPass
                    /\ entries[i].revoked = 0
                    /\ FindEntry(entries, st.recipient_count, entries[i].wallet) = i
                    /\ vault >= VestedAt(i, now) - entries[i].released_amount)
                       => LET out == release_to_recipient(st.distributor, entries[i].wallet,
                                                          Ata(entries[i].wallet))
                          IN  /\ out.res = "Ok"
                              /\ (now = st.start_ts /\ entries[i].released_amount = 0)
                                     => vault - out.vault = entries[i].monthly_amount
                              /\ TwelfthMonth
                                     => out.entries[i].released_amount = entries[i].allocation
          /\ TwelfthMonth => sweep_dust_after_end(st.admin).res = "SweepBeforeEnd")

\* In the twelfth month, one second of it at least still to come: the first
\* recipient has its whole allocation of 100, the second one, paid 30 of 120 so
\* far, gets the remaining 90 from a release now, and the sweep is refused.
C37_Witness ==
    /\ initialized /\ ChecksPass /\ TwelfthMonth
    /\ now = boundary(st.start_ts, 11)
    /\ st.recipient_count = 2
    /\ entries[1].revoked = 0 /\ entries[1].allocation = 100
    /\ entries[1].released_amount = 100
    /\ entries[2].revoked = 0 /\ entries[2].allocation = 120
    /\ entries[2].released_amount = 30
    /\ release_to_recipient(st.distributor, entries[2].wallet, Ata(entries[2].wallet)).res
           = "Ok"
    /\ release_to_recipient(st.distributor, entries[2].wallet, Ata(entries[2].wallet))
           .entries[2].released_amount = 120
    /\ vault - release_to_recipient(st.distributor, entries[2].wallet,
                                    Ata(entries[2].wallet)).vault = 90
    /\ sweep_dust_after_end(st.admin).res = "SweepBeforeEnd"

====
